---- MODULE Spec2Model ----
(***************************************************************************)
(* A model of the streaming response assembler of the PromptQL NodeJS SDK: *)
(*   - readQueryStream / handleChunk (the frame decoder and its read loop) *)
(*   - createQueryChunks (the response accumulator)                        *)
(* Text is a sequence of one-character strings.  Array indices of the      *)
(* source are 0-based; sequences here are 1-based, so a[i] is a[i + 1].    *)
(***************************************************************************)
EXTENDS Integers, Sequences, FiniteSets, TLC

\* ------------------------------------------------------------------------
\* Bounds of the model
\* ------------------------------------------------------------------------
MaxFrames == 2
MaxPushes == 3
MaxIndex == 2
MaxAccs == 2
MaxInteractions == 3

\* ------------------------------------------------------------------------
\* Text helpers (String.prototype methods used by handleChunk)
\* ------------------------------------------------------------------------
DATA_CHUNK_PREFIX == <<"d", "a", "t", "a", ":", " ">>

\* The characters String.prototype.trim removes and JSON allows between tokens.
IsWhitespace(c) == c \in {" ", "\n"}

\* s.substring(n): the text after the first n characters ('' when s is shorter)
substring(s, n) == IF n >= Len(s) THEN <<>> ELSE SubSeq(s, n + 1, Len(s))

\* s.startsWith(p)
startsWith(s, p) == Len(s) >= Len(p) /\ SubSeq(s, 1, Len(p)) = p

\* s.indexOf(p) as a 1-based position, 0 when p does not occur in s
indexOf(s, p) ==
  LET hits == { k \in 1..(Len(s) - Len(p) + 1) : SubSeq(s, k, k + Len(p) - 1) = p }
  IN IF hits = {} THEN 0 ELSE CHOOSE k \in hits : \A h \in hits : k <= h

\* s.split(p): the pieces of s between the occurrences of p, left to right
RECURSIVE split(_, _)
split(s, p) ==
  LET k == indexOf(s, p)
  IN IF k = 0 THEN <<s>>
     ELSE <<SubSeq(s, 1, k - 1)>> \o split(substring(s, k - 1 + Len(p)), p)

RECURSIVE trimStart(_)
trimStart(s) ==
  IF s # <<>> /\ IsWhitespace(Head(s)) THEN trimStart(Tail(s)) ELSE s

RECURSIVE trimEnd(_)
trimEnd(s) ==
  IF s # <<>> /\ IsWhitespace(s[Len(s)]) THEN trimEnd(SubSeq(s, 1, Len(s) - 1)) ELSE s

\* s.trim()
trim(s) == trimEnd(trimStart(s))

\* ------------------------------------------------------------------------
\* TextDecoder('utf-8').decode(value), called without the stream option.
\* A byte below 0x80 is written as its character; "C3" "A9" are the two
\* bytes of U+00E9.  Every byte that is not part of a complete sequence
\* inside this one value decodes to the replacement character U+FFFD.
\* ------------------------------------------------------------------------
RECURSIVE decode(_)
decode(value) ==
  IF value = <<>> THEN <<>>
  ELSE IF Head(value) = "C3"
       THEN IF Len(value) >= 2 /\ value[2] = "A9"
            THEN <<"U+00E9">> \o decode(substring(value, 2))
            ELSE <<"U+FFFD">> \o decode(Tail(value))
       ELSE IF Head(value) = "A9"
            THEN <<"U+FFFD">> \o decode(Tail(value))
            ELSE <<Head(value)>> \o decode(Tail(value))

\* ------------------------------------------------------------------------
\* JSON.parse, for the texts that can be written with the characters
\*   d a t : space newline { } " 1 U+00E9 U+FFFD
\* Over these characters a JSON value is a number (digits), a string
\* (no escape, no control character) or an object with at most one member
\* (there is no comma).  The parsed value is represented by its canonical
\* text: the tokens of the value without the whitespace between them.
\* A result is [ok, next, val]: next is the position after the value.
\* ------------------------------------------------------------------------
Fail == [ok |-> FALSE, next |-> 0, val |-> <<>>]

RECURSIVE skipWhitespace(_, _)
skipWhitespace(s, i) ==
  IF i <= Len(s) /\ IsWhitespace(s[i]) THEN skipWhitespace(s, i + 1) ELSE i

RECURSIVE digitsEnd(_, _)
digitsEnd(s, i) == IF i <= Len(s) /\ s[i] = "1" THEN digitsEnd(s, i + 1) ELSE i

parseNumber(s, i) ==
  LET j == digitsEnd(s, i)
  IN IF j = i THEN Fail ELSE [ok |-> TRUE, next |-> j, val |-> SubSeq(s, i, j - 1)]

\* the position of the closing quote of the string whose content starts at i,
\* 0 when the string is unterminated or holds a raw control character
RECURSIVE stringEnd(_, _)
stringEnd(s, i) ==
  IF i > Len(s) THEN 0
  ELSE IF s[i] = "\"" THEN i
  ELSE IF s[i] = "\n" THEN 0
  ELSE stringEnd(s, i + 1)

parseString(s, i) ==
  IF i > Len(s) \/ s[i] # "\"" THEN Fail
  ELSE LET j == stringEnd(s, i + 1)
       IN IF j = 0 THEN Fail
          ELSE [ok |-> TRUE, next |-> j + 1, val |-> SubSeq(s, i, j)]

RECURSIVE parseValue(_, _)
parseValue(s, i0) ==
  LET i == skipWhitespace(s, i0)
  IN IF i > Len(s) THEN Fail
     ELSE IF s[i] = "\"" THEN parseString(s, i)
     ELSE IF s[i] = "1" THEN parseNumber(s, i)
     ELSE IF s[i] = "{" THEN
       LET j == skipWhitespace(s, i + 1)
       IN IF j <= Len(s) /\ s[j] = "}"
          THEN [ok |-> TRUE, next |-> j + 1, val |-> <<"{", "}">>]
          ELSE LET key == parseString(s, j)
               IN IF ~key.ok THEN Fail
                  ELSE LET c == skipWhitespace(s, key.next)
                       IN IF c > Len(s) \/ s[c] # ":" THEN Fail
                          ELSE LET v == parseValue(s, c + 1)
                               IN IF ~v.ok THEN Fail
                                  ELSE LET e == skipWhitespace(s, v.next)
                                       IN IF e > Len(s) \/ s[e] # "}" THEN Fail
                                          ELSE [ok |-> TRUE, next |-> e + 1,
                                                val |-> <<"{">> \o key.val \o <<":">>
                                                        \o v.val \o <<"}">>]
     ELSE Fail

\* JSON.parse(line): ok is FALSE where JSON.parse throws a SyntaxError
JSON_parse(line) ==
  LET r == parseValue(line, 1)
  IN IF r.ok /\ skipWhitespace(line, r.next) > Len(line)
     THEN [ok |-> TRUE, val |-> r.val]
     ELSE [ok |-> FALSE, val |-> <<>>]

\* the truthiness `if (data)` tests: every object and every number written
\* with the digit 1 is truthy, a string is truthy unless it is empty
Truthy(val) == val # <<"\"", "\"">>

\* ------------------------------------------------------------------------
\* Values of the response accumulator (createQueryChunks)
\* A `string | null | undefined` value is [tag, s]; s is the text of a string.
\* ------------------------------------------------------------------------
Undefined == [tag |-> "undefined", s |-> <<>>]
Null == [tag |-> "null", s |-> <<>>]
Str(s) == [tag |-> "string", s |-> s]

\* !v for a string | null | undefined value
IsFalsy(v) == v.tag # "string" \/ v.s = <<>>

\* a variant that joins the two fragments with a space
concatWithSeparator(src, target) ==
  IF IsFalsy(src) THEN target
  ELSE IF IsFalsy(target) THEN src
  ELSE Str(src.s \o <<" ">> \o target.s)

concatNullableStrings(src, target) ==
  IF IsFalsy(src) THEN target
  ELSE IF IsFalsy(target) THEN src
  ELSE Str(src.s \o target.s)

assistantActionKeys == {"code", "code_error", "code_output", "message", "plan"}

\* the object literal {} pushed as a placeholder: no field is present
EmptyAction == [name \in assistantActionKeys |-> Undefined]

\* artifact types, as text
TEXT == <<"t", "e", "x", "t">>
TABLE == <<"t", "a", "b", "l", "e">>
VISUALIZATION == <<"v", "i", "s", "u", "a", "l", "i", "z", "a", "t", "i", "o", "n">>
AUTOMATION == <<"a", "u", "t", "o", "m", "a", "t", "i", "o", "n">>

\* a variant that gives a text artifact the key of the table of its identifier
buildArtifactKeyTextAsTable(artifact) ==
  (IF artifact.artifact_type = TEXT THEN TABLE ELSE artifact.artifact_type)
    \o <<":">> \o artifact.identifier

\* `${artifact.artifact_type}:${artifact.identifier}`
buildArtifactKey(artifact) == artifact.artifact_type \o <<":">> \o artifact.identifier

\* the UTF-16 code unit of a character of an artifact key
CharCode(c) ==
  CASE c = ":" -> 58  [] c = "a" -> 97  [] c = "b" -> 98  [] c = "e" -> 101
    [] c = "i" -> 105 [] c = "l" -> 108 [] c = "m" -> 109 [] c = "n" -> 110
    [] c = "o" -> 111 [] c = "s" -> 115 [] c = "t" -> 116 [] c = "u" -> 117
    [] c = "v" -> 118 [] c = "x" -> 120 [] c = "z" -> 122

\* x < y for strings: the comparison Array.prototype.sort() uses by default
RECURSIVE StringLess(_, _)
StringLess(x, y) ==
  IF y = <<>> THEN FALSE
  ELSE IF x = <<>> THEN TRUE
  ELSE IF CharCode(Head(x)) # CharCode(Head(y)) THEN CharCode(Head(x)) < CharCode(Head(y))
  ELSE StringLess(Tail(x), Tail(y))

\* a variant that puts key k behind the keys
insertLast(keys, k) == Append(keys, k)

\* insert key k into the ascending list keys
RECURSIVE insertSorted(_, _)
insertSorted(keys, k) ==
  IF keys = <<>> THEN <<k>>
  ELSE IF StringLess(k, Head(keys)) THEN <<k>> \o keys
  ELSE <<Head(keys)>> \o insertSorted(Tail(keys), k)

\* a variant that leaves the keys in the order they are in
unsorted(keys) == keys

\* keys.sort()
RECURSIVE sort(_)
sort(keys) ==
  IF keys = <<>> THEN <<>>
  ELSE insertSorted(sort(SubSeq(keys, 1, Len(keys) - 1)), keys[Len(keys)])

\* ------------------------------------------------------------------------
\* The heap the accumulators live in.  A world is
\*   errors:    the ErrorChunk objects         (a reference is an index, 0 is
\*   artifacts: the Artifact objects            undefined)
\*   arrays:    the ApiThreadAssistantAction[] arrays
\*   accs:      the closures createQueryChunks has returned, each
\*              [threadId, errorChunk, assistantActions, modifiedArtifacts,
\*               modifiedArtifactKeys]
\* ------------------------------------------------------------------------
\* the key list of a seed's modified_artifacts, in insertion order
RECURSIVE objectKeys(_, _)
objectKeys(w, refs) ==
  IF refs = <<>> THEN <<>>
  ELSE LET rest == objectKeys(w, SubSeq(refs, 1, Len(refs) - 1))
           key == buildArtifactKey(w.artifacts[refs[Len(refs)]])
       IN IF \E j \in 1..Len(rest) : rest[j] = key THEN rest ELSE Append(rest, key)

\* modified_artifacts.reduce(...): each key maps to the last artifact with that key
reduceArtifacts(w, refs) ==
  LET keys == { buildArtifactKey(w.artifacts[refs[j]]) : j \in 1..Len(refs) }
  IN [key \in keys |->
        refs[CHOOSE j \in 1..Len(refs) :
               /\ buildArtifactKey(w.artifacts[refs[j]]) = key
               /\ \A h \in 1..Len(refs) :
                    buildArtifactKey(w.artifacts[refs[h]]) = key => h <= j]]

\* the argument of createQueryChunks() called without an initial value
NoInitialValue == [given |-> FALSE]

\* createQueryChunks(initialValue): the world with one more accumulator.
\* initialValue is NoInitialValue or [given, thread_id, error,
\* assistant_actions (an array reference), modified_artifacts (a list of
\* artifact references)].  initialValue.error is not read.
createQueryChunks(w, initialValue) ==
  IF ~initialValue.given
  THEN [w EXCEPT
          !.arrays = Append(@, <<>>),
          !.accs = Append(@, [threadId |-> Null,
                              errorChunk |-> 0,
                              assistantActions |-> Len(w.arrays) + 1,
                              modifiedArtifacts |-> <<>>,
                              modifiedArtifactKeys |-> <<>>])]
  ELSE [w EXCEPT
          !.accs = Append(@,
            [threadId |-> IF initialValue.thread_id.tag = "string"
                          THEN initialValue.thread_id ELSE Null,
             errorChunk |-> 0,
             assistantActions |-> initialValue.assistant_actions,
             modifiedArtifacts |-> reduceArtifacts(w, initialValue.modified_artifacts),
             modifiedArtifactKeys |->
               sort(objectKeys(w, initialValue.modified_artifacts))])]

\* for (let i = assistantActions.length; i <= chunk.index; i++) push({}),
\* with one iteration too many
RECURSIVE padOneMore(_, _)
padOneMore(actions, index) ==
  IF Len(actions) <= index + 1 THEN padOneMore(Append(actions, EmptyAction), index)
  ELSE actions

\* for (let i = assistantActions.length; i <= chunk.index; i++) push({})
RECURSIVE pad(_, _)
pad(actions, index) ==
  IF Len(actions) <= index THEN pad(Append(actions, EmptyAction), index)
  ELSE actions

\* a variant that keeps a thread id once one is set
pushThreadMetadataOnce(w, a, chunk) ==
  IF w.accs[a].threadId.tag = "string" THEN w
  ELSE [w EXCEPT !.accs[a].threadId = chunk.thread_id]

\* case 'thread_metadata_chunk'
pushThreadMetadata(w, a, chunk) ==
  [w EXCEPT !.accs[a].threadId = chunk.thread_id]

\* a variant in which a later error fragment replaces the stored one
pushErrorReplace(w, a, chunk) ==
  LET ref == Len(w.errors) + 1
  IN [w EXCEPT !.errors = Append(@, chunk), !.accs[a].errorChunk = ref]

\* case 'error_chunk', for a chunk that is the object ref of the heap: the
\* first chunk object is kept by reference, a later one is added to its text
pushErrorObject(w, a, ref) ==
  IF w.accs[a].errorChunk = 0
  THEN [w EXCEPT !.accs[a].errorChunk = ref]
  ELSE [w EXCEPT !.errors[w.accs[a].errorChunk].error = @ \o w.errors[ref].error]

\* case 'error_chunk'; the caller's chunk object is allocated first
pushError(w, a, chunk) ==
  pushErrorObject([w EXCEPT !.errors = Append(@, chunk)], a, Len(w.errors) + 1)

\* a variant in which the incoming data replaces the stored data
mergeArtifactReplace(artifact, incoming) == [artifact EXCEPT !.data = incoming.data]

\* the switch on the stored artifact's type: the incoming data is appended
mergeArtifact(artifact, incoming) ==
  IF artifact.artifact_type = TEXT
    THEN [artifact EXCEPT !.data = @ \o incoming.data]
  ELSE IF artifact.artifact_type = TABLE
    THEN [artifact EXCEPT !.data = @ \o incoming.data]
  ELSE IF artifact.artifact_type = VISUALIZATION
    THEN [artifact EXCEPT !.data.html = @ \o incoming.data.html]
  ELSE artifact

\* case 'artifact_update_chunk'; the caller's chunk.artifact object is
\* allocated first
pushArtifactUpdate(w, a, chunk) ==
  LET ref == Len(w.artifacts) + 1
      w1 == [w EXCEPT !.artifacts = Append(@, chunk.artifact)]
      key == buildArtifactKey(chunk.artifact)
      acc == w.accs[a]
  IN IF key \notin DOMAIN acc.modifiedArtifacts
     THEN [w1 EXCEPT
             !.accs[a].modifiedArtifacts =
                [k \in DOMAIN acc.modifiedArtifacts \cup {key} |->
                   IF k = key THEN ref ELSE acc.modifiedArtifacts[k]],
             !.accs[a].modifiedArtifactKeys = sort(Append(@, key))]
     ELSE [w1 EXCEPT
             !.artifacts[acc.modifiedArtifacts[key]] = mergeArtifact(@, chunk.artifact)]

\* a variant that writes the fields of the chunk over those of the action
pushAssistantActionOver(w, a, chunk) ==
  LET arr == w.accs[a].assistantActions
      padded == pad(w.arrays[arr], chunk.index)
  IN [w EXCEPT
        !.arrays[arr] =
           [padded EXCEPT ![chunk.index + 1] =
              [name \in assistantActionKeys |-> chunk[name]]]]

\* case 'assistant_action_chunk'
pushAssistantAction(w, a, chunk) ==
  LET arr == w.accs[a].assistantActions
      padded == pad(w.arrays[arr], chunk.index)
      action == padded[chunk.index + 1]
  IN [w EXCEPT
        !.arrays[arr] =
           [padded EXCEPT ![chunk.index + 1] =
              [name \in assistantActionKeys |->
                 concatNullableStrings(action[name], chunk[name])]]]

\* push(chunk) of accumulator a
push(w, a, chunk) ==
  IF chunk.type = "thread_metadata_chunk" THEN pushThreadMetadata(w, a, chunk)
  ELSE IF chunk.type = "error_chunk" THEN pushError(w, a, chunk)
  ELSE IF chunk.type = "artifact_update_chunk" THEN pushArtifactUpdate(w, a, chunk)
  ELSE IF chunk.type = "assistant_action_chunk" THEN pushAssistantAction(w, a, chunk)
  ELSE w

\* the copy clone() makes of an artifact: a new object with the same fields,
\* the rows of a table and the data of a visualization copied as well
cloneArtifact(artifact) ==
  IF artifact.artifact_type = TABLE
    THEN [artifact EXCEPT !.data = [j \in 1..Len(artifact.data) |-> artifact.data[j]]]
  ELSE IF artifact.artifact_type = VISUALIZATION
    THEN [artifact EXCEPT !.data = [html |-> artifact.data.html]]
  ELSE [name \in DOMAIN artifact |-> artifact[name]]

\* a variant of clone() that does not hand the thread id to the copy
cloneWithoutThreadId(w, a) ==
  LET acc == w.accs[a]
      keys == acc.modifiedArtifactKeys
      w1 == [w EXCEPT
               !.arrays = Append(@, w.arrays[acc.assistantActions]),
               !.artifacts = @ \o [j \in 1..Len(keys) |->
                                     cloneArtifact(w.artifacts[acc.modifiedArtifacts[keys[j]]])]]
  IN createQueryChunks(w1,
       [given |-> TRUE, thread_id |-> Undefined, error |-> acc.errorChunk,
        assistant_actions |-> Len(w.arrays) + 1,
        modified_artifacts |-> [j \in 1..Len(keys) |-> Len(w.artifacts) + j]])

\* clone() of accumulator a: the world with one more accumulator, created by
\* createQueryChunks from a new array of copied actions and copies of the
\* artifacts in key order; the error is handed over by reference
clone(w, a) ==
  LET acc == w.accs[a]
      keys == acc.modifiedArtifactKeys
      w1 == [w EXCEPT
               !.arrays = Append(@, [j \in 1..Len(w.arrays[acc.assistantActions]) |->
                                       [name \in assistantActionKeys |->
                                          w.arrays[acc.assistantActions][j][name]]]),
               !.artifacts = @ \o [j \in 1..Len(keys) |->
                                     cloneArtifact(w.artifacts[acc.modifiedArtifacts[keys[j]]])]]
  IN createQueryChunks(w1,
       [given |-> TRUE,
        thread_id |-> IF acc.threadId.tag = "null" THEN Undefined ELSE acc.threadId,
        error |-> acc.errorChunk,
        assistant_actions |-> Len(w.arrays) + 1,
        modified_artifacts |-> [j \in 1..Len(keys) |-> Len(w.artifacts) + j]])

\* result.push(chunk) for one argument of append: a chunk the caller has just
\* made, or [ref |-> r], the error chunk object r the caller already holds
pushRecord(w, a, record) ==
  IF "ref" \in DOMAIN record THEN pushErrorObject(w, a, record.ref)
  ELSE push(w, a, record)

\* for (const chunk of chunks) result.push(chunk)
RECURSIVE pushEach(_, _, _)
pushEach(w, a, chunks) ==
  IF chunks = <<>> THEN w
  ELSE pushEach(pushRecord(w, a, Head(chunks)), a, Tail(chunks))

\* append(...chunks) of accumulator a: the result is the newest accumulator
append(w, a, chunks) == pushEach(clone(w, a), Len(w.accs) + 1, chunks)

\* the read accessors of accumulator a
getThreadId(w, a) == w.accs[a].threadId
getAssistantActions(w, a) == w.arrays[w.accs[a].assistantActions]
getModifiedArtifacts(w, a) ==
  [j \in 1..Len(w.accs[a].modifiedArtifactKeys) |->
     w.artifacts[w.accs[a].modifiedArtifacts[w.accs[a].modifiedArtifactKeys[j]]]]
isError(w, a) == w.accs[a].errorChunk # 0
\* getError() of an accumulator for which isError() holds
getError(w, a) == w.errors[w.accs[a].errorChunk]

\* toQueryResponse(): threadId is read with a non-null assertion, which does
\* nothing at run time
toQueryResponse(w, a) ==
  [thread_id |-> w.accs[a].threadId,
   assistant_actions |-> getAssistantActions(w, a),
   modified_artifacts |-> getModifiedArtifacts(w, a)]

\* the object of toQueryResponse() without its artifacts
responseWithoutArtifacts(w, a) ==
  [given |-> TRUE, thread_id |-> w.accs[a].threadId, error |-> 0,
   assistant_actions |-> w.accs[a].assistantActions, modified_artifacts |-> <<>>]

\* The object toQueryResponse() returns, as an initial value: its
\* assistant_actions is the array the accumulator holds, its
\* modified_artifacts a new array of the artifact objects it holds, in key
\* order; it has no error.
responseObject(w, a) ==
  [given |-> TRUE, thread_id |-> w.accs[a].threadId, error |-> 0,
   assistant_actions |-> w.accs[a].assistantActions,
   modified_artifacts |->
     [j \in 1..Len(w.accs[a].modifiedArtifactKeys) |->
        w.accs[a].modifiedArtifacts[w.accs[a].modifiedArtifactKeys[j]]]]

\* ------------------------------------------------------------------------
\* The wire: a stream is the bytes of a sequence of frames, each the
\* delimiter followed by one JSON object and an optional blank line.
\* ------------------------------------------------------------------------
FrameA == <<"{", "\"", "a", "\"", ":", "1", "}">>
FrameT == <<"{", "\"", "t", "\"", ":", "{", "}", "}">>
FrameD == <<"{", "\"", "d", "\"", ":", "1", "}">>
FrameTexts == {FrameA, FrameT, FrameD}

BlankLine == <<"\n", "\n">>
Separators == {"none", "blank", "between"}

\* the sequences of 1..MaxFrames pairwise different frames; no frame is the
\* text of a value nested in another frame, so the content of a record tells
\* which frame it was parsed from
FrameSeqs ==
  { fs \in UNION { [1..n -> FrameTexts] : n \in 1..MaxFrames } :
      \A a, b \in DOMAIN fs : a # b => fs[a] # fs[b] }

\* the frame {"a":"\u00e9"}, whose string is one two-byte character
FrameE == <<"{", "\"", "a", "\"", ":", "\"", "U+00E9", "\"", "}">>

\* streams of one or two frames, the frame with the two-byte character among them
Utf8FrameSeqs == { <<FrameE>>, <<FrameA, FrameE>>, <<FrameE, FrameD>> }

\* the UTF-8 bytes of a text, as the server writes them
RECURSIVE encode(_)
encode(text) ==
  IF text = <<>> THEN <<>>
  ELSE (IF Head(text) = "U+00E9" THEN <<"C3", "A9">> ELSE <<Head(text)>>)
       \o encode(Tail(text))

RECURSIVE Wire(_, _)
Wire(fs, sep) ==
  IF fs = <<>> THEN <<>>
  ELSE DATA_CHUNK_PREFIX \o Head(fs)
       \o (IF sep = "blank" \/ (sep = "between" /\ Len(fs) > 1) THEN BlankLine ELSE <<>>)
       \o Wire(Tail(fs), sep)

\* ------------------------------------------------------------------------
\* validateResponse
\* A response is [status, body, text, statusText]: body tells whether
\* response.body is set, text is what response.text() resolves with.
\* ------------------------------------------------------------------------
\* the body texts of the responses and what JSON.parse makes of them (of a
\* validation error only msg is read, so loc and type are left out): kind is
\* "throws" for a SyntaxError, "null" for null, "object" for an object whose
\* detail member is absent ("undefined"), a string or a list
BodyTexts ==
  { "Bad Gateway", "null", "{}", "{\"detail\":\"Not Found\"}", "{\"detail\":[]}",
    "{\"detail\":[{\"msg\":\"m1\"}]}", "{\"detail\":[{\"msg\":\"m1\"},{\"msg\":\"m2\"}]}" }

JSON_parseBody(text) ==
  CASE text = "null" -> [kind |-> "null"]
    [] text = "{}" -> [kind |-> "object", detail |-> [kind |-> "undefined"]]
    [] text = "{\"detail\":\"Not Found\"}"
         -> [kind |-> "object", detail |-> [kind |-> "string", length |-> 9]]
    [] text = "{\"detail\":[]}"
         -> [kind |-> "object", detail |-> [kind |-> "list", list |-> <<>>]]
    [] text = "{\"detail\":[{\"msg\":\"m1\"}]}"
         -> [kind |-> "object", detail |-> [kind |-> "list", list |-> <<[msg |-> "m1"]>>]]
    [] text = "{\"detail\":[{\"msg\":\"m1\"},{\"msg\":\"m2\"}]}"
         -> [kind |-> "object",
             detail |-> [kind |-> "list", list |-> <<[msg |-> "m1"], [msg |-> "m2"]>>]]
    [] OTHER -> [kind |-> "throws"]

Statuses == {200, 399, 400, 422, 500, 501, 503}

Responses ==
  [status : Statuses, body : {TRUE}, text : BodyTexts, statusText : {"Error"}]
  \cup [status : Statuses, body : {FALSE}, text : {""}, statusText : {"Error"}]

\* no response has arrived
NoResponse == [status |-> 0, body |-> FALSE, text |-> "", statusText |-> ""]

\* detail.map((d) => d.msg).join('. ')
RECURSIVE joinMessages(_)
joinMessages(list) ==
  IF list = <<>> THEN ""
  ELSE IF Len(list) = 1 THEN list[1].msg
  ELSE list[1].msg \o ". " \o joinMessages(Tail(list))

\* new PromptQLError(detail, message)
PromptQLError(list, message) ==
  [name |-> "PromptQLError", detail |-> list,
   message |-> IF message # "" THEN message ELSE joinMessages(list)]

\* The statements of the try block, which end with a throw in every case: the
\* SyntaxError of JSON.parse, the TypeError of reading detail of null or of
\* calling map of a string, or the PromptQLError built from the parsed body.
tryBlock(responseText) ==
  LET pqlError == JSON_parseBody(responseText)
  IN IF pqlError.kind = "throws" THEN [name |-> "SyntaxError"]
     ELSE IF pqlError.kind = "null" THEN [name |-> "TypeError"]
     ELSE IF pqlError.detail.kind = "undefined" THEN PromptQLError(<<>>, responseText)
     ELSE IF pqlError.detail.kind = "string"
       THEN IF pqlError.detail.length > 0 THEN [name |-> "TypeError"]
            ELSE PromptQLError(<<>>, responseText)
     ELSE IF Len(pqlError.detail.list) > 0
       THEN PromptQLError(pqlError.detail.list, joinMessages(pqlError.detail.list))
     ELSE PromptQLError(pqlError.detail.list, responseText)

\* a catch block that lets the PromptQLError of the try block through
catchOthers(err, responseText) ==
  IF err.name = "PromptQLError" THEN err ELSE PromptQLError(<<>>, responseText)

\* catch (_) { throw new PromptQLError([], responseText) }: the block catches
\* whatever the try block throws, the PromptQLError of its last statement too
catch(err, responseText) == PromptQLError(<<>>, responseText)

\* validateResponse(response): the response, or the error thrown
validateResponse(r) ==
  IF r.status < 400 THEN [thrown |-> FALSE, response |-> r]
  ELSE LET responseText == IF r.body THEN r.text ELSE r.statusText
       IN IF r.status > 500 \/ ~r.body
          THEN [thrown |-> TRUE, error |-> PromptQLError(<<>>, responseText)]
          ELSE [thrown |-> TRUE, error |-> catch(tryBlock(responseText), responseText)]

\* ------------------------------------------------------------------------
\* State
\* ------------------------------------------------------------------------
VARIABLES
  frames,           \* the frames the server sends, in wire order
  stream,           \* the bytes of response.body
  pos,              \* number of bytes the reader has handed out
  pc,               \* position of readQueryStream
  caller,           \* who awaits handleChunk: the read loop or the final flush
  incompleteChunk,  \* the carry-over text
  responseSize,
  rawChunks,        \* the fragments of the running handleChunk call
  i,                \* the loop index of the running handleChunk call
  delivered,        \* the records the callback was invoked with, in call order
  outstanding,      \* callback promises that have not settled
  aborted,          \* signal.aborted
  cancelled,        \* the body was cancelled: its byte source is released
  outcome,          \* how the promise of readQueryStream settled
  call,             \* the call: a callback function was passed, the response has a body
  locked,           \* response.body is locked to the reader of getReader()
  thrown,           \* the error thrown by reader.read(), handleChunk or the callback
  done              \* reader.read() has resolved with done

VARIABLES
  accs,             \* the accumulators created so far
  errors,           \* heap: ErrorChunk objects
  artifacts,        \* heap: Artifact objects
  arrays,           \* heap: arrays of assistant actions
  pushed,           \* the chunks passed to push, as they were when passed
  seed,             \* the content of the initial value when it was passed
  fixtures,         \* the records a fold over append consumes, in order
  taken             \* how many of these records the snapshot's accumulator holds

VARIABLES
  interactions,     \* the user message texts of the request's interactions
  api,              \* the method called: query or queryStream, of client v1 or v2
  qpc,              \* position of queryRaw
  fetchCalls,       \* number of calls of the fetch function
  rejection,        \* the message of the error the call rejected with
  response,         \* the response the fetch function resolved with
  detail            \* the detail of the PromptQLError validateResponse threw

streamVars == <<frames, stream, pos, pc, caller, incompleteChunk, responseSize,
                rawChunks, i, delivered, outstanding, aborted, cancelled, outcome,
                call, locked, thrown, done>>

chunksVars == <<accs, errors, artifacts, arrays, pushed, seed, fixtures, taken>>

requestVars == <<interactions, api, qpc, fetchCalls, rejection, response, detail>>

vars == <<streamVars, chunksVars, requestVars>>

\* ------------------------------------------------------------------------
\* handleChunk
\* ------------------------------------------------------------------------
\* The fragments handleChunk(text) loops over; no fragment at all when it
\* returns at once because text and carry-over are both empty.
handleChunkSplit(text, carry) ==
  IF text = <<>> /\ carry = <<>> THEN <<>>
  ELSE LET tempText == carry \o text
       IN split(IF startsWith(tempText, DATA_CHUNK_PREFIX)
                THEN substring(text, Len(DATA_CHUNK_PREFIX))
                ELSE tempText,
                DATA_CHUNK_PREFIX)

\* rawChunks[i], the fragment the loop looks at in iteration i
fragmentAtFromEnd(chunks, k) == chunks[Len(chunks) - k]

fragmentAt(chunks, k) == chunks[k + 1]

\* the loop without its await: the callback's promise is dropped and the loop
\* goes on to the next fragment at once
RECURSIVE forLoopNoAwait(_, _, _)
forLoopNoAwait(chunks, k, inc) ==
  IF k >= Len(chunks)
  THEN [at |-> "end", i |-> k, incompleteChunk |-> inc, calls |-> <<>>]
  ELSE LET chunk == fragmentAt(chunks, k)
           line == trim(chunk)
       IN IF line = <<>> \/ line[Len(line)] # "}"
          THEN [at |-> "return", i |-> k, calls |-> <<>>,
                incompleteChunk |->
                  inc \o (IF k > 0 THEN DATA_CHUNK_PREFIX \o chunk ELSE chunk)]
          ELSE LET data == JSON_parse(line)
               IN IF ~data.ok
                  THEN forLoopNoAwait(chunks, k + 1,
                         inc \o (IF k > 0 THEN DATA_CHUNK_PREFIX \o line ELSE line))
                  ELSE LET rest == forLoopNoAwait(chunks, k + 1, inc)
                       IN IF Truthy(data.val)
                          THEN [rest EXCEPT !.calls = <<data.val>> \o @]
                          ELSE rest

\* the loop without the try/catch around JSON.parse: the SyntaxError of a
\* fragment that does not parse leaves handleChunk
RECURSIVE forLoopNoCatch(_, _, _)
forLoopNoCatch(chunks, k, inc) ==
  IF k >= Len(chunks)
  THEN [at |-> "end", i |-> k, incompleteChunk |-> inc, calls |-> <<>>]
  ELSE LET chunk == fragmentAt(chunks, k)
           line == trim(chunk)
       IN IF line = <<>> \/ line[Len(line)] # "}"
          THEN [at |-> "return", i |-> k, calls |-> <<>>,
                incompleteChunk |->
                  inc \o (IF k > 0 THEN DATA_CHUNK_PREFIX \o chunk ELSE chunk)]
          ELSE LET data == JSON_parse(line)
               IN IF ~data.ok
                  THEN [at |-> "throw", i |-> k, incompleteChunk |-> inc, calls |-> <<>>]
                  ELSE IF Truthy(data.val)
                  THEN [at |-> "callback", i |-> k, incompleteChunk |-> inc,
                        calls |-> <<data.val>>]
                  ELSE forLoopNoCatch(chunks, k + 1, inc)

\* the loop with a second place that buffers a fragment: the text of a
\* fragment that parsed is kept in the carry-over too
RECURSIVE forLoopKeepsParsed(_, _, _)
forLoopKeepsParsed(chunks, k, inc) ==
  IF k >= Len(chunks)
  THEN [at |-> "end", i |-> k, incompleteChunk |-> inc, calls |-> <<>>]
  ELSE LET chunk == fragmentAt(chunks, k)
           line == trim(chunk)
           kept == inc \o (IF k > 0 THEN DATA_CHUNK_PREFIX \o line ELSE line)
       IN IF line = <<>> \/ line[Len(line)] # "}"
          THEN [at |-> "return", i |-> k, calls |-> <<>>,
                incompleteChunk |->
                  inc \o (IF k > 0 THEN DATA_CHUNK_PREFIX \o chunk ELSE chunk)]
          ELSE LET data == JSON_parse(line)
               IN IF ~data.ok
                  THEN forLoopKeepsParsed(chunks, k + 1, kept)
                  ELSE IF Truthy(data.val)
                  THEN [at |-> "callback", i |-> k, incompleteChunk |-> kept,
                        calls |-> <<data.val>>]
                  ELSE forLoopKeepsParsed(chunks, k + 1, kept)

\* The for loop of handleChunk from index k with carry-over inc, run until it
\* suspends on `await callback(data)`, returns, or runs off the end.
\* calls: the records the callback was invoked with during this run.
RECURSIVE forLoop(_, _, _)
forLoop(chunks, k, inc) ==
  IF k >= Len(chunks)
  THEN [at |-> "end", i |-> k, incompleteChunk |-> inc, calls |-> <<>>]
  ELSE LET chunk == fragmentAt(chunks, k)
           line == trim(chunk)
       IN IF line = <<>> \/ line[Len(line)] # "}"
          THEN [at |-> "return", i |-> k, calls |-> <<>>,
                incompleteChunk |->
                  inc \o (IF k > 0 THEN DATA_CHUNK_PREFIX \o chunk ELSE chunk)]
          ELSE LET data == JSON_parse(line)
               IN IF ~data.ok
                  THEN forLoop(chunks, k + 1,
                         inc \o (IF k > 0 THEN DATA_CHUNK_PREFIX \o line ELSE line))
                  ELSE IF Truthy(data.val)
                  THEN [at |-> "callback", i |-> k, incompleteChunk |-> inc,
                        calls |-> <<data.val>>]
                  ELSE forLoop(chunks, k + 1, inc)

\* response.body.cancel(): a stream that is locked to a reader rejects the call
\* with a TypeError and stays as it was; a stream without a reader is cancelled
cancelUnlocked(isLocked) == [ok |-> TRUE, cancelled |-> TRUE]

cancel(isLocked) ==
  IF isLocked THEN [ok |-> FALSE, cancelled |-> FALSE]
  ELSE [ok |-> TRUE, cancelled |-> TRUE]

\* catch (err) { await response.body.cancel(); throw err }: readQueryStream
\* rejects with err once the cancel has resolved, with the error of the cancel
\* when that rejects
Catch(err) ==
  LET c == cancel(locked)
  IN /\ thrown' = err
     /\ cancelled' = (cancelled \/ c.cancelled)
     /\ pc' = "rejected"
     /\ outcome' = IF c.ok THEN err ELSE "cancel_error"

\* an error that leaves readQueryStream outside the try block of the read loop
Throw(err) ==
  /\ thrown' = err
  /\ pc' = "rejected"
  /\ outcome' = err
  /\ UNCHANGED cancelled

\* The effect of running handleChunk's loop from index k on the state.  An
\* exception that leaves the loop rejects handleChunk: it reaches the catch
\* block when the call was made by the read loop, and leaves readQueryStream
\* when it was made by the final flush.
RunHandleChunk(chunks, k, inc, settled, from) ==
  LET r == forLoop(chunks, k, inc)
  IN /\ rawChunks' = chunks
     /\ i' = r.i
     /\ incompleteChunk' = r.incompleteChunk
     /\ delivered' = delivered \o r.calls
     /\ outstanding' = outstanding - settled + Len(r.calls)
     /\ caller' = from
     /\ IF r.at = "throw"
        THEN IF from = "loop" THEN Catch("syntax_error") ELSE Throw("syntax_error")
        ELSE /\ pc' = IF r.at = "callback" THEN "callback"
                      ELSE IF from = "loop" THEN "loop" ELSE "returned"
             /\ outcome' = IF r.at # "callback" /\ from = "flush" THEN "resolved"
                           ELSE outcome
             /\ UNCHANGED <<cancelled, thrown>>

\* ------------------------------------------------------------------------
\* readQueryStream
\* ------------------------------------------------------------------------
\* a call of readQueryStream on a response whose body is one of the given
\* frame sequences
ReadQueryStreamInit(seqs) ==
  /\ call \in [callback : BOOLEAN, body : BOOLEAN]
  /\ IF call.body
     THEN /\ frames \in seqs
          /\ \E sep \in Separators : stream = encode(Wire(frames, sep))
     ELSE /\ frames = <<>>
          /\ stream = <<>>
  /\ pos = 0
  /\ pc = "start"
  /\ caller = "loop"
  /\ incompleteChunk = <<>>
  /\ responseSize = 0
  /\ rawChunks = <<>>
  /\ i = 0
  /\ delivered = <<>>
  /\ outstanding = 0
  /\ aborted = FALSE
  /\ cancelled = FALSE
  /\ outcome = "pending"
  /\ locked = FALSE
  /\ thrown = "none"
  /\ done = FALSE

StreamInit == ReadQueryStreamInit(FrameSeqs)

Utf8Init == ReadQueryStreamInit(Utf8FrameSeqs)

\* the first statements without the early return
StartUnchecked ==
  /\ pc = "start"
  /\ locked' = TRUE
  /\ pc' = "loop"
  /\ UNCHANGED <<chunksVars, requestVars>>
  /\ UNCHANGED <<frames, stream, pos, caller, incompleteChunk, responseSize, rawChunks,
                 i, delivered, outstanding, aborted, cancelled, outcome, call, thrown, done>>

\* if (typeof callback !== 'function' || !response.body) { return 0 }
\* const reader = response.body.getReader()
Start ==
  /\ pc = "start"
  /\ IF ~call.callback \/ ~call.body
     THEN /\ pc' = "returned"
          /\ outcome' = "resolved"
          /\ UNCHANGED locked
     ELSE /\ locked' = TRUE
          /\ pc' = "loop"
          /\ UNCHANGED outcome
  /\ UNCHANGED <<chunksVars, requestVars>>
  /\ UNCHANGED <<frames, stream, pos, caller, incompleteChunk, responseSize, rawChunks,
                 i, delivered, outstanding, aborted, cancelled, call, thrown, done>>

\* the top of the loop without the check of the signal
CheckSignalUnchecked ==
  /\ pc = "loop"
  /\ pc' = "reading"
  /\ UNCHANGED <<chunksVars, requestVars>>
  /\ UNCHANGED <<frames, stream, pos, caller, incompleteChunk, responseSize, rawChunks,
                 i, delivered, outstanding, aborted, cancelled, outcome, call, locked,
                 thrown, done>>

\* while (true) { if (signal?.aborted) { await response.body.cancel(); break }
\* the cancel is awaited outside the try block: its rejection leaves
\* readQueryStream
CheckSignal ==
  /\ pc = "loop"
  /\ IF aborted
     THEN LET c == cancel(locked)
          IN /\ cancelled' = (cancelled \/ c.cancelled)
             /\ pc' = IF c.ok THEN "after_loop" ELSE "rejected"
             /\ outcome' = IF c.ok THEN outcome ELSE "cancel_error"
     ELSE /\ pc' = "reading"
          /\ UNCHANGED <<cancelled, outcome>>
  /\ UNCHANGED <<chunksVars, requestVars>>
  /\ UNCHANGED <<frames, stream, pos, caller, incompleteChunk, responseSize, rawChunks,
                 i, delivered, outstanding, aborted, call, locked, thrown, done>>

\* reader.read() resolves with the next n bytes of the body
ReadChunk(n) ==
  /\ pc = "reading"
  /\ pos + n <= Len(stream)
  /\ pos' = pos + n
  /\ LET text == decode(SubSeq(stream, pos + 1, pos + n))
     IN IF text = <<>>
        THEN /\ pc' = "loop"
             /\ UNCHANGED <<caller, incompleteChunk, responseSize, rawChunks, i,
                            delivered, outstanding, outcome, cancelled, thrown>>
        ELSE /\ responseSize' = responseSize + Len(text)
             /\ RunHandleChunk(handleChunkSplit(text, incompleteChunk), 0,
                               <<>>, 0, "loop")
  /\ UNCHANGED <<chunksVars, requestVars>>
  /\ UNCHANGED <<frames, stream, aborted, call, locked, done>>

\* a loop that reads on when reader.read() resolves with done
ReadDoneContinue ==
  /\ pc = "reading"
  /\ pos = Len(stream)
  /\ done' = TRUE
  /\ pc' = "loop"
  /\ UNCHANGED <<chunksVars, requestVars>>
  /\ UNCHANGED <<frames, stream, pos, caller, incompleteChunk, responseSize, rawChunks,
                 i, delivered, outstanding, aborted, cancelled, outcome, call, locked,
                 thrown>>

\* reader.read() resolves with done
ReadDone ==
  /\ pc = "reading"
  /\ pos = Len(stream)
  /\ done' = TRUE
  /\ pc' = "after_loop"
  /\ UNCHANGED <<chunksVars, requestVars>>
  /\ UNCHANGED <<frames, stream, pos, caller, incompleteChunk, responseSize, rawChunks,
                 i, delivered, outstanding, aborted, cancelled, outcome, call, locked,
                 thrown>>

\* reader.read() rejects: catch (err) { await response.body.cancel(); throw err }
ReadError ==
  /\ pc = "reading"
  /\ Catch("read_error")
  /\ UNCHANGED <<chunksVars, requestVars>>
  /\ UNCHANGED <<frames, stream, pos, caller, incompleteChunk, responseSize, rawChunks,
                 i, delivered, outstanding, aborted, call, locked, done>>

\* the promise of a callback invocation fulfils; an awaiting handleChunk resumes
CallbackResolve ==
  /\ outstanding > 0
  /\ IF pc = "callback"
     THEN RunHandleChunk(rawChunks, i + 1, incompleteChunk, 1, caller)
     ELSE /\ outstanding' = outstanding - 1
          /\ UNCHANGED <<pc, caller, incompleteChunk, rawChunks, i, delivered, outcome,
                         cancelled, thrown>>
  /\ UNCHANGED <<chunksVars, requestVars>>
  /\ UNCHANGED <<frames, stream, pos, responseSize, aborted, call, locked, done>>

\* the callback throws or its promise rejects: handleChunk rejects; inside the
\* read loop the catch block cancels the body and rethrows
CallbackReject ==
  /\ pc = "callback"
  /\ outstanding > 0
  /\ outstanding' = outstanding - 1
  /\ IF caller = "loop" THEN Catch("callback_error") ELSE Throw("callback_error")
  /\ UNCHANGED <<chunksVars, requestVars>>
  /\ UNCHANGED <<frames, stream, pos, caller, incompleteChunk, responseSize, rawChunks,
                 i, delivered, aborted, call, locked, done>>

\* if (incompleteChunk) { await handleChunk('') }  return responseSize
Flush ==
  /\ pc = "after_loop"
  /\ IF incompleteChunk # <<>>
     THEN RunHandleChunk(handleChunkSplit(<<>>, incompleteChunk), 0, <<>>, 0, "flush")
     ELSE /\ pc' = "returned"
          /\ outcome' = "resolved"
          /\ UNCHANGED <<caller, incompleteChunk, rawChunks, i, delivered, outstanding,
                         cancelled, thrown>>
  /\ UNCHANGED <<chunksVars, requestVars>>
  /\ UNCHANGED <<frames, stream, pos, responseSize, aborted, call, locked, done>>

\* the owner of the AbortSignal aborts it
Abort ==
  /\ ~aborted
  /\ pc \notin {"returned", "rejected"}
  /\ aborted' = TRUE
  /\ UNCHANGED <<chunksVars, requestVars>>
  /\ UNCHANGED <<frames, stream, pos, pc, caller, incompleteChunk, responseSize,
                 rawChunks, i, delivered, outstanding, cancelled, outcome, call, locked,
                 thrown, done>>

\* no accumulator exists
ChunksIdle ==
  /\ accs = <<>>
  /\ errors = <<>>
  /\ artifacts = <<>>
  /\ arrays = <<>>
  /\ pushed = <<>>
  /\ seed = [actions |-> <<>>, artifacts |-> <<>>, thread_id |-> Undefined]
  /\ fixtures = <<>>
  /\ taken = 0

\* no request is being made
RequestIdle ==
  /\ interactions = <<>>
  /\ api = [version |-> "v1", method |-> "query"]
  /\ qpc = "idle"
  /\ fetchCalls = 0
  /\ rejection = "none"
  /\ response = NoResponse
  /\ detail = <<>>

StreamNext ==
  \/ Start
  \/ CheckSignal
  \/ \E n \in 0..Len(stream) : ReadChunk(n)
  \/ ReadDone
  \/ ReadError
  \/ CallbackResolve
  \/ CallbackReject
  \/ Flush
  \/ Abort

\* one readQueryStream call over one response, no accumulator involved
StreamStart == StreamInit /\ ChunksIdle /\ RequestIdle

StreamSpec == StreamStart /\ [][StreamNext]_vars

\* The scheduling of a run whose byte source hands out its bytes and signals
\* the end, and whose callback promises settle.  A continuation that is ready
\* runs: weak fairness on the steps of readQueryStream.  For the steps that run
\* handleChunk the condition is written out with the state predicate that
\* enables the step: Flush is enabled exactly when pc = "after_loop", a
\* callback settles exactly when pc = "callback", a read is pending exactly
\* when pc = "reading".
\* WF_vars(Flush)
FlushRuns == []<>(pc # "after_loop")

\* WF_vars(CallbackResolve \/ CallbackReject): a pending callback promise settles
CallbacksSettle ==
  \/ []<>(pc # "callback")
  \/ []<><<pc = "callback" /\ (delivered' # delivered \/ pc' # "callback")>>_vars

\* SF_vars((\E n \in 1..Len(stream) : ReadChunk(n)) \/ ReadDone): a read that
\* is issued again and again does not resolve with the empty chunk for ever,
\* it hands out bytes or signals the end
SourceProgresses ==
  \/ <>[](pc # "reading")
  \/ []<><<pc = "reading" /\ (pos' > pos \/ done')>>_vars

StreamFairness ==
  /\ WF_vars(Start)
  /\ WF_vars(CheckSignal)
  /\ FlushRuns
  /\ CallbacksSettle
  /\ SourceProgresses

FairStreamSpec == StreamStart /\ [][StreamNext]_vars /\ StreamFairness

\* one readQueryStream call over a response with a two-byte character
Utf8Start == Utf8Init /\ ChunksIdle /\ RequestIdle

Utf8Spec == Utf8Start /\ [][StreamNext]_vars

\* ------------------------------------------------------------------------
\* The accumulator: the chunks a caller can push
\* ------------------------------------------------------------------------
ThreadChunks ==
  { [type |-> "thread_metadata_chunk", thread_id |-> Str(t)] : t \in {<<"1">>, <<"2">>} }

ErrorChunks ==
  { [type |-> "error_chunk", error |-> e] : e \in {<<"x">>, <<"y">>} }

Artifacts ==
  { [artifact_type |-> TEXT, identifier |-> <<"a">>, data |-> <<"p">>],
    [artifact_type |-> TEXT, identifier |-> <<"a">>, data |-> <<"q">>],
    [artifact_type |-> TABLE, identifier |-> <<"a">>, data |-> <<"row1">>],
    [artifact_type |-> TABLE, identifier |-> <<"a">>, data |-> <<"row2", "row3">>],
    [artifact_type |-> VISUALIZATION, identifier |-> <<"a">>, data |-> [html |-> <<"h">>]],
    [artifact_type |-> VISUALIZATION, identifier |-> <<"a">>, data |-> [html |-> <<"k">>]],
    [artifact_type |-> AUTOMATION, identifier |-> <<"a">>, data |-> [name |-> <<"m">>]],
    [artifact_type |-> AUTOMATION, identifier |-> <<"a">>, data |-> [name |-> <<"n">>]] }

ArtifactChunks ==
  { [type |-> "artifact_update_chunk", artifact |-> artifact] : artifact \in Artifacts }

\* an assistant_action_chunk whose five fragments are all null
NullAction(index) ==
  [type |-> "assistant_action_chunk", index |-> index, message |-> Null,
   plan |-> Null, code |-> Null, code_output |-> Null, code_error |-> Null]

ActionChunks ==
  { [NullAction(index) EXCEPT !.message = Str(<<"a">>)] : index \in 0..MaxIndex }
  \cup { NullAction(0),
         [NullAction(0) EXCEPT !.message = Str(<<>>)],
         [NullAction(0) EXCEPT !.plan = Str(<<"p">>), !.code = Str(<<"c">>),
                               !.code_output = Str(<<"o">>),
                               !.code_error = Str(<<"e">>)],
         [NullAction(1) EXCEPT !.message = Str(<<"b">>)],
         [type |-> "assistant_action_chunk", index |-> 1, message |-> Undefined,
          plan |-> Undefined, code |-> Str(<<"c">>), code_output |-> Undefined,
          code_error |-> Undefined] }

Chunks == ThreadChunks \cup ErrorChunks \cup ArtifactChunks \cup ActionChunks

\* the objects a caller holds before it calls createQueryChunks(initialValue):
\* one error chunk, three artifacts (two with the same key, keys descending)
\* and one array with one action
SeedWorld ==
  [accs |-> <<>>,
   errors |-> <<[type |-> "error_chunk", error |-> <<"z">>]>>,
   artifacts |-> <<[artifact_type |-> TEXT, identifier |-> <<"b">>, data |-> <<"s">>],
                   [artifact_type |-> TABLE, identifier |-> <<"a">>, data |-> <<"row0">>],
                   [artifact_type |-> TEXT, identifier |-> <<"b">>, data |-> <<"u">>]>>,
   arrays |-> << <<[EmptyAction EXCEPT !["message"] = Str(<<"s">>)]>> >>]

SeedValue ==
  [given |-> TRUE, thread_id |-> Str(<<"0">>), error |-> 1,
   assistant_actions |-> 1, modified_artifacts |-> <<1, 2, 3>>]

EmptyWorld == [accs |-> <<>>, errors |-> <<>>, artifacts |-> <<>>, arrays |-> <<>>]

World == [accs |-> accs, errors |-> errors, artifacts |-> artifacts, arrays |-> arrays]

\* the read loop is not running
StreamIdle ==
  /\ frames = <<>>
  /\ stream = <<>>
  /\ pos = 0
  /\ pc = "idle"
  /\ caller = "loop"
  /\ incompleteChunk = <<>>
  /\ responseSize = 0
  /\ rawChunks = <<>>
  /\ i = 0
  /\ delivered = <<>>
  /\ outstanding = 0
  /\ aborted = FALSE
  /\ cancelled = FALSE
  /\ outcome = "pending"
  /\ call = [callback |-> FALSE, body |-> FALSE]
  /\ locked = FALSE
  /\ thrown = "none"
  /\ done = FALSE

\* createQueryChunks() or createQueryChunks(initialValue)
ChunksInit ==
  /\ \E init \in { <<EmptyWorld, NoInitialValue>>, <<SeedWorld, SeedValue>> } :
       LET w == createQueryChunks(init[1], init[2])
       IN /\ accs = w.accs
          /\ errors = w.errors
          /\ artifacts = w.artifacts
          /\ arrays = w.arrays
          /\ seed = IF init[2].given
                    THEN [actions |-> init[1].arrays[init[2].assistant_actions],
                          artifacts |-> [j \in 1..Len(init[2].modified_artifacts) |->
                                           init[1].artifacts[init[2].modified_artifacts[j]]],
                          thread_id |-> init[2].thread_id]
                    ELSE [actions |-> <<>>, artifacts |-> <<>>, thread_id |-> Undefined]
  /\ pushed = <<>>
  /\ fixtures = <<>>
  /\ taken = 0

\* accumulator a .push(chunk), with a chunk object the caller has just decoded
Push(a, chunk) ==
  /\ Len(pushed) < MaxPushes
  /\ LET w == push(World, a, chunk)
     IN /\ accs' = w.accs
        /\ errors' = w.errors
        /\ artifacts' = w.artifacts
        /\ arrays' = w.arrays
  /\ pushed' = Append(pushed, chunk)
  /\ UNCHANGED <<seed, fixtures, taken>>
  /\ UNCHANGED <<streamVars, requestVars>>

ChunksNext == \E a \in 1..Len(accs) : \E chunk \in Chunks : Push(a, chunk)

\* one accumulator and the pushes into it, no stream involved
ChunksStart == ChunksInit /\ StreamIdle /\ RequestIdle

ChunksSpec == ChunksStart /\ [][ChunksNext]_vars

\* ------------------------------------------------------------------------
\* The accumulator: append
\* ------------------------------------------------------------------------
\* the chunks a caller makes to pass them to append, or to push before it
AppendRecords ==
  { [type |-> "thread_metadata_chunk", thread_id |-> Str(<<"1">>)],
    [type |-> "error_chunk", error |-> <<"x">>],
    [type |-> "error_chunk", error |-> <<"y">>],
    [type |-> "artifact_update_chunk",
     artifact |-> [artifact_type |-> TABLE, identifier |-> <<"a">>, data |-> <<"row1">>]],
    [type |-> "artifact_update_chunk",
     artifact |-> [artifact_type |-> VISUALIZATION, identifier |-> <<"a">>,
                   data |-> [html |-> <<"h">>]]],
    [NullAction(0) EXCEPT !.message = Str(<<"a">>)] }

\* what a caller can pass to append of accumulator a: a chunk it has just
\* made, or once more the error chunk object it has pushed into a
AppendArguments(a) ==
  AppendRecords \cup (IF accs[a].errorChunk # 0 THEN {[ref |-> accs[a].errorChunk]} ELSE {})

\* the argument lists of append: no record, one, or two
RecordLists(a) ==
  {<<>>} \cup { <<x>> : x \in AppendArguments(a) }
         \cup { <<x, y>> : x, y \in AppendArguments(a) }

\* accumulator a .append(...records); the result is the newest accumulator
AppendTo(a, records) ==
  /\ LET w == append(World, a, records)
     IN /\ accs' = w.accs
        /\ errors' = w.errors
        /\ artifacts' = w.artifacts
        /\ arrays' = w.arrays
  /\ UNCHANGED <<pushed, seed, fixtures, taken>>
  /\ UNCHANGED <<streamVars, requestVars>>

AppendNext ==
  \/ \E chunk \in AppendRecords : Push(1, chunk)
  \/ \E a \in 1..Len(accs) : \E records \in RecordLists(a) :
       Len(accs) < MaxAccs /\ AppendTo(a, records)

\* one accumulator, the pushes into it and the appends of it
AppendSpec == ChunksStart /\ [][AppendNext]_vars

\* ------------------------------------------------------------------------
\* The accumulator: a list of records folded by push and folded by append
\* ------------------------------------------------------------------------
Fixtures ==
  AppendRecords
  \cup { [type |-> "thread_metadata_chunk", thread_id |-> Str(<<"2">>)],
         [type |-> "artifact_update_chunk",
          artifact |-> [artifact_type |-> TABLE, identifier |-> <<"a">>,
                        data |-> <<"row2", "row3">>]],
         [NullAction(1) EXCEPT !.message = Str(<<"b">>)] }

\* the accumulator the variable queryChunks of the fold holds: the newest
queryChunks == Len(accs)

\* two accumulators from createQueryChunks(): 1 is pushed into, 2 is the
\* first value of queryChunks; the records to fold are decoded from 1 to
\* MaxPushes fixtures
FoldInit ==
  /\ fixtures \in UNION { [1..n -> Fixtures] : n \in 1..MaxPushes }
  /\ LET w == createQueryChunks(createQueryChunks(EmptyWorld, NoInitialValue),
                                NoInitialValue)
     IN /\ accs = w.accs
        /\ errors = w.errors
        /\ artifacts = w.artifacts
        /\ arrays = w.arrays
  /\ pushed = <<>>
  /\ seed = [actions |-> <<>>, artifacts |-> <<>>, thread_id |-> Undefined]
  /\ taken = 0

\* chunks.push(data) with the next record, decoded for this call
FoldPush ==
  /\ Len(pushed) < Len(fixtures)
  /\ Push(1, fixtures[Len(pushed) + 1])

\* queryChunks = queryChunks.append(chunk) with the next record, decoded for
\* this call
FoldAppend ==
  /\ queryChunks - 2 < Len(fixtures)
  /\ AppendTo(queryChunks, <<fixtures[queryChunks - 1]>>)

FoldNext == FoldPush \/ FoldAppend

FoldStart == FoldInit /\ StreamIdle /\ RequestIdle

FoldSpec == FoldStart /\ [][FoldNext]_vars

\* ------------------------------------------------------------------------
\* Two accumulators made from one initial value
\* ------------------------------------------------------------------------
\* const a = createQueryChunks(initialValue), b = createQueryChunks(initialValue),
\* or both made without an initial value
SharedInit ==
  /\ \E init \in { <<EmptyWorld, NoInitialValue>>, <<SeedWorld, SeedValue>> } :
       LET w == createQueryChunks(createQueryChunks(init[1], init[2]), init[2])
       IN /\ accs = w.accs
          /\ errors = w.errors
          /\ artifacts = w.artifacts
          /\ arrays = w.arrays
          /\ seed = IF init[2].given
                    THEN [actions |-> init[1].arrays[init[2].assistant_actions],
                          artifacts |-> [j \in 1..Len(init[2].modified_artifacts) |->
                                           init[1].artifacts[init[2].modified_artifacts[j]]],
                          thread_id |-> init[2].thread_id]
                    ELSE [actions |-> <<>>, artifacts |-> <<>>, thread_id |-> Undefined]
  /\ pushed = <<>>
  /\ fixtures = <<>>
  /\ taken = 0

SharedNext == \E a \in 1..Len(accs) : \E chunk \in AppendRecords : Push(a, chunk)

SharedStart == SharedInit /\ StreamIdle /\ RequestIdle

SharedSpec == SharedStart /\ [][SharedNext]_vars

\* ------------------------------------------------------------------------
\* An accumulator and the accumulator made from its snapshot
\* ------------------------------------------------------------------------
SnapshotRecords ==
  { [type |-> "thread_metadata_chunk", thread_id |-> Str(<<"1">>)],
    [type |-> "error_chunk", error |-> <<"x">>],
    [type |-> "artifact_update_chunk",
     artifact |-> [artifact_type |-> TABLE, identifier |-> <<"a">>, data |-> <<"row1">>]],
    [type |-> "artifact_update_chunk",
     artifact |-> [artifact_type |-> TEXT, identifier |-> <<"a">>, data |-> <<"p">>]],
    [NullAction(0) EXCEPT !.message = Str(<<"a">>)],
    [NullAction(1) EXCEPT !.message = Str(<<"b">>)] }

\* accumulator 1 is made with or without an initial value; the records it
\* will be given are 1 to MaxPushes of the records above
SnapshotInit ==
  /\ fixtures \in UNION { [1..n -> SnapshotRecords] : n \in 1..MaxPushes }
  /\ \E init \in { <<EmptyWorld, NoInitialValue>>, <<SeedWorld, SeedValue>> } :
       LET w == createQueryChunks(init[1], init[2])
       IN /\ accs = w.accs
          /\ errors = w.errors
          /\ artifacts = w.artifacts
          /\ arrays = w.arrays
          /\ seed = IF init[2].given
                    THEN [actions |-> init[1].arrays[init[2].assistant_actions],
                          artifacts |-> [j \in 1..Len(init[2].modified_artifacts) |->
                                           init[1].artifacts[init[2].modified_artifacts[j]]],
                          thread_id |-> init[2].thread_id]
                    ELSE [actions |-> <<>>, artifacts |-> <<>>, thread_id |-> Undefined]
  /\ pushed = <<>>
  /\ taken = 0

\* a.push(record) with the next record, decoded for this call
SnapshotPush ==
  /\ Len(pushed) < Len(fixtures)
  /\ Push(1, fixtures[Len(pushed) + 1])

\* const b = createQueryChunks(a.toQueryResponse()), of an accumulator with a
\* thread id and without an error
Snapshot ==
  /\ Len(accs) = 1
  /\ accs[1].threadId # Null
  /\ ~isError(World, 1)
  /\ LET w == createQueryChunks(World, responseObject(World, 1))
     IN /\ accs' = w.accs
        /\ errors' = w.errors
        /\ artifacts' = w.artifacts
        /\ arrays' = w.arrays
  /\ taken' = Len(pushed)
  /\ UNCHANGED <<pushed, seed, fixtures>>
  /\ UNCHANGED <<streamVars, requestVars>>

\* b.push(record) with its next record, decoded for this call
SnapshotTake ==
  /\ Len(accs) = 2
  /\ taken < Len(fixtures)
  /\ LET w == push(World, 2, fixtures[taken + 1])
     IN /\ accs' = w.accs
        /\ errors' = w.errors
        /\ artifacts' = w.artifacts
        /\ arrays' = w.arrays
  /\ taken' = taken + 1
  /\ UNCHANGED <<pushed, seed, fixtures>>
  /\ UNCHANGED <<streamVars, requestVars>>

SnapshotNext == SnapshotPush \/ Snapshot \/ SnapshotTake

SnapshotStart == SnapshotInit /\ StreamIdle /\ RequestIdle

SnapshotSpec == SnapshotStart /\ [][SnapshotNext]_vars

\* ------------------------------------------------------------------------
\* Two accumulators given the same records, the last two in either order
\* ------------------------------------------------------------------------
SwapRecords ==
  SnapshotRecords
  \cup { [type |-> "thread_metadata_chunk", thread_id |-> Str(<<"2">>)],
         [type |-> "error_chunk", error |-> <<"y">>],
         [type |-> "artifact_update_chunk",
          artifact |-> [artifact_type |-> TEXT, identifier |-> <<"a">>, data |-> <<"q">>]] }

\* the list with its last two records exchanged
Swapped(list) ==
  IF Len(list) < 2 THEN list
  ELSE SubSeq(list, 1, Len(list) - 2) \o <<list[Len(list)], list[Len(list) - 1]>>

\* const a = createQueryChunks(), b = createQueryChunks(); the records they
\* will be given are 1 to MaxPushes of the records above
SwapInit ==
  /\ fixtures \in UNION { [1..n -> SwapRecords] : n \in 1..MaxPushes }
  /\ LET w == createQueryChunks(createQueryChunks(EmptyWorld, NoInitialValue),
                                NoInitialValue)
     IN /\ accs = w.accs
        /\ errors = w.errors
        /\ artifacts = w.artifacts
        /\ arrays = w.arrays
  /\ pushed = <<>>
  /\ seed = [actions |-> <<>>, artifacts |-> <<>>, thread_id |-> Undefined]
  /\ taken = 0

\* a.push(record) with the next record of the list, decoded for this call
SwapPush ==
  /\ Len(pushed) < Len(fixtures)
  /\ Push(1, fixtures[Len(pushed) + 1])

\* b.push(record) with the next record of the exchanged list, decoded for
\* this call
SwapTake ==
  /\ taken < Len(fixtures)
  /\ LET w == push(World, 2, Swapped(fixtures)[taken + 1])
     IN /\ accs' = w.accs
        /\ errors' = w.errors
        /\ artifacts' = w.artifacts
        /\ arrays' = w.arrays
  /\ taken' = taken + 1
  /\ UNCHANGED <<pushed, seed, fixtures>>
  /\ UNCHANGED <<streamVars, requestVars>>

SwapNext == SwapPush \/ SwapTake

SwapStart == SwapInit /\ StreamIdle /\ RequestIdle

SwapSpec == SwapStart /\ [][SwapNext]_vars

\* ------------------------------------------------------------------------
\* queryRaw: the request of query and queryStream (clients v1 and v2)
\* ------------------------------------------------------------------------
\* user message texts: empty, one character, blank
MessageTexts == { <<>>, <<"q">>, <<" ">> }

Requests == UNION { [1..n -> MessageTexts] : n \in 0..MaxInteractions }

\* the test of queryRaw with the every() left out
rejectsEmptyListOnly(list) == Len(list) = 0

\* !rest.interactions.length ||
\* rest.interactions.every((interaction) => !interaction.user_message.text)
rejectsRequest(list) ==
  Len(list) = 0 \/ \A j \in 1..Len(list) : list[j] = <<>>

RequestInit ==
  /\ interactions \in Requests
  /\ api \in [version : {"v1", "v2"}, method : {"query", "queryStream"}]
  /\ qpc = "queryRaw"
  /\ fetchCalls = 0
  /\ rejection = "none"
  /\ response = NoResponse
  /\ detail = <<>>

\* the first statement of queryRaw: throw new PromptQLError([], 'require ...')
Validate ==
  /\ qpc = "queryRaw"
  /\ IF rejectsRequest(interactions)
     THEN /\ qpc' = "rejected"
          /\ rejection' =
               "require at least 1 interaction with non-empty user message content"
     ELSE /\ qpc' = "validated"
          /\ UNCHANGED rejection
  /\ UNCHANGED <<interactions, api, fetchCalls, response, detail>>
  /\ UNCHANGED <<streamVars, chunksVars>>

\* await buildDdnConfigV1(ddn, options.ddn) / buildDdnConfigV2(span, ddn): the
\* configuration is built, or the call rejects because it has no usable url
BuildDdnConfig ==
  /\ qpc = "validated"
  /\ \E usable \in BOOLEAN :
       IF usable
       THEN /\ qpc' = "configured"
            /\ UNCHANGED rejection
       ELSE /\ qpc' = "rejected"
            /\ rejection' = "ddn.url is required"
  /\ UNCHANGED <<interactions, api, fetchCalls, response, detail>>
  /\ UNCHANGED <<streamVars, chunksVars>>

\* return fetchFn(url, { ... })
Fetch ==
  /\ qpc = "configured"
  /\ fetchCalls' = fetchCalls + 1
  /\ qpc' = "fetched"
  /\ UNCHANGED <<interactions, api, rejection, response, detail>>
  /\ UNCHANGED <<streamVars, chunksVars>>

\* .then(validateResponse): the fetch function has resolved with a response;
\* queryRaw resolves with it or rejects with the error validateResponse throws
ValidateResponse ==
  /\ qpc = "fetched"
  /\ \E r \in Responses :
       LET v == validateResponse(r)
       IN /\ response' = r
          /\ IF v.thrown
             THEN /\ qpc' = "rejected"
                  /\ rejection' = v.error.message
                  /\ detail' = v.error.detail
             ELSE /\ qpc' = "resolved"
                  /\ UNCHANGED <<rejection, detail>>
  /\ UNCHANGED <<interactions, api, fetchCalls>>
  /\ UNCHANGED <<streamVars, chunksVars>>

RequestNext == Validate \/ BuildDdnConfig \/ Fetch \/ ValidateResponse

\* one call of query or queryStream, up to the call of the fetch function
RequestStart == RequestInit /\ StreamIdle /\ ChunksIdle

RequestSpec == RequestStart /\ [][RequestNext]_vars

\* ------------------------------------------------------------------------
\* Properties of the frame decoder
\* ------------------------------------------------------------------------
\* the record a frame parses to
RecordOf(frame) == JSON_parse(frame).val

\* a run that read the body to its end and resolved, with no cancellation
CompletedRun == pc = "returned" /\ done /\ ~cancelled /\ pos = Len(stream)

\* handleChunk's loop with every callback promise fulfilled, run to its end
RECURSIVE Drain(_, _, _)
Drain(chunks, k, inc) ==
  LET r == forLoop(chunks, k, inc)
  IN IF r.at = "callback"
     THEN LET rest == Drain(chunks, r.i + 1, r.incompleteChunk)
          IN [calls |-> r.calls \o rest.calls, incompleteChunk |-> rest.incompleteChunk]
     ELSE [calls |-> r.calls, incompleteChunk |-> r.incompleteChunk]

\* the records of a run that receives the whole text as one single chunk
SingleChunkRecords(text) ==
  LET first == Drain(handleChunkSplit(text, <<>>), 0, <<>>)
      flush == Drain(handleChunkSplit(<<>>, first.incompleteChunk), 0, <<>>)
  IN first.calls \o flush.calls

\* C1: split-boundary invariance: however the text of a valid frame sequence
\* is cut into chunks, a completed run has passed to the callback the same
\* ordered records as a run that receives the whole text as one chunk.
SplitInvariance ==
  CompletedRun => delivered = SingleChunkRecords(decode(stream))

\* C2: callback order equals wire order: of the records of two different
\* frames, the record of the frame earlier in the stream is delivered first.
WireOrder ==
  \A m, n \in 1..Len(delivered) :
    \A a, b \in 1..Len(frames) :
      (m < n /\ a # b /\ delivered[m] = RecordOf(frames[a])
             /\ delivered[n] = RecordOf(frames[b])) => a < b

\* two frames were delivered in one run, the second by a later handleChunk call
WireOrderWitness ==
  /\ Len(delivered) = 2
  /\ Len(frames) = 2
  /\ pc = "returned"
  /\ delivered[2] = RecordOf(frames[2])

\* C3: the callback is awaited: at most one callback promise is outstanding,
\* and while one is outstanding readQueryStream is suspended on it: no
\* reader.read() is in flight and the loop has not moved on.
CallbackAwaited ==
  /\ outstanding <= 1
  /\ outstanding = 1 => pc = "callback"

\* a callback is outstanding while a later fragment of the same chunk waits
CallbackAwaitedWitness ==
  /\ outstanding = 1
  /\ pc = "callback"
  /\ i + 1 < Len(rawChunks)

\* C4: trailing-frame delivery: when the stream ends right after the closing
\* brace of its last frame, a completed run has delivered that last frame.
TrailingFrameDelivered ==
  (CompletedRun /\ stream[Len(stream)] = "}")
    => /\ delivered # <<>>
       /\ delivered[Len(delivered)] = RecordOf(frames[Len(frames)])

\* C18: the frame decoder never surfaces parse errors: readQueryStream never
\* rejects with the SyntaxError of JSON.parse, and every value the callback
\* was invoked with is a truthy JSON value that parsed.
NoParseErrorSurfaced ==
  /\ thrown # "syntax_error"
  /\ outcome # "syntax_error"
  /\ \A j \in 1..Len(delivered) :
       JSON_parse(delivered[j]).ok /\ Truthy(delivered[j])

\* a fragment that ends with a brace and does not parse was met and kept,
\* after a record was delivered, and the run goes on
NoParseErrorSurfacedWitness ==
  /\ pc = "loop"
  /\ outcome = "pending"
  /\ delivered # <<>>
  /\ incompleteChunk # <<>>
  /\ incompleteChunk[Len(incompleteChunk)] = "}"
  /\ ~JSON_parse(incompleteChunk).ok

AbortStopsStep ==
  /\ (pc' = "reading" /\ pc # "reading") => ~aborted
  /\ (pc = "loop" /\ aborted)
       => (cancelled' /\ pc' # "reading" /\ pos' = pos /\ responseSize' = responseSize)
  /\ cancelled => (pc' # "reading" /\ pos' = pos /\ responseSize' = responseSize)

\* C19: cancellation stops the read loop: a read is issued only after the
\* signal was seen not aborted; when the loop sees it aborted it cancels the
\* body and leaves; after that no read is issued and no chunk of the body is
\* taken or handed to handleChunk.
AbortStops == [][AbortStopsStep]_vars

\* the read loop was left because the signal is aborted: by the break, or by
\* the rejection of the cancel before it
LeftByAbort == thrown = "none" /\ (cancelled \/ outcome = "cancel_error")

\* C20: cancellation does not flush: when the loop was left because the
\* signal is aborted, handleChunk('') is not called, whatever the carry-over.
CancelDoesNotFlush == LeftByAbort => caller # "flush"

\* a run aborted in the middle of the body with text in the carry-over, which
\* was not flushed
CancelDoesNotFlushWitness ==
  /\ aborted
  /\ LeftByAbort
  /\ pc = "rejected"
  /\ pos < Len(stream)
  /\ delivered # <<>>
  /\ incompleteChunk # <<>>

ReadErrorPropagatesStep ==
  /\ (pc = "reading" /\ thrown' = "read_error")
       => (cancelled' /\ pc' = "rejected" /\ outcome' = "read_error")
  /\ thrown = "read_error" => (pc' = pc /\ pos' = pos /\ outcome' = outcome)

\* C21: transport errors propagate after release: when reader.read() rejects
\* with an error, the body is cancelled and readQueryStream rejects with that
\* error; afterwards nothing is read and the rejection stays as it is.
ReadErrorPropagates == [][ReadErrorPropagatesStep]_vars

CallbackFailureStopsStep ==
  /\ (pc = "callback" /\ caller = "loop" /\ thrown' = "callback_error")
       => (cancelled' /\ pc' = "rejected" /\ outcome' = "callback_error")
  /\ thrown = "callback_error"
       => (pc' = pc /\ pos' = pos /\ delivered' = delivered /\ outcome' = outcome)

\* C34: a failing callback stops the stream: when the callback throws or
\* rejects while a chunk is processed, the body is cancelled and
\* readQueryStream rejects with the callback's error; afterwards no record is
\* delivered and nothing is read.
CallbackFailureStops == [][CallbackFailureStopsStep]_vars

\* C22: without a callback function, or without a body, readQueryStream
\* acquires no reader, reads nothing, invokes no callback and returns 0: the
\* response is left with its body unconsumed.
NoCallbackUntouched ==
  (~call.callback \/ ~call.body)
    => /\ ~locked
       /\ pos = 0
       /\ delivered = <<>>
       /\ outstanding = 0
       /\ pc \in {"start", "returned"}
       /\ pc = "returned" => (outcome = "resolved" /\ responseSize = 0)

\* a call without a callback has returned, the body has bytes to read
NoCallbackUntouchedWitness ==
  /\ ~call.callback
  /\ call.body
  /\ stream # <<>>
  /\ pc = "returned"
  /\ outcome = "resolved"

\* a step in which handleChunk is called: by the read loop with the text of a
\* chunk, or by the final flush with the empty text
HandleChunkCalled ==
  \/ pc = "reading" /\ pos' > pos
  \/ pc = "after_loop" /\ incompleteChunk # <<>>

\* the text handleChunk was called with in such a step
CalledWith == IF pc = "reading" THEN decode(SubSeq(stream, pos + 1, pos')) ELSE <<>>

\* a text without one leading delimiter
StripOne(t) ==
  IF startsWith(t, DATA_CHUNK_PREFIX) THEN substring(t, Len(DATA_CHUNK_PREFIX)) ELSE t

LeadingDelimiterStep ==
  HandleChunkCalled
    => rawChunks' = split(StripOne(incompleteChunk \o CalledWith), DATA_CHUNK_PREFIX)

\* C24: leading-delimiter stripping: the text handleChunk splits into
\* fragments is the carry-over followed by the new chunk, without one leading
\* delimiter when it starts with one, and with every other character.
LeadingDelimiter == [][LeadingDelimiterStep]_vars

\* the text of the fragments from index k on, with the delimiters between them
RECURSIVE Rejoin(_, _)
Rejoin(chunks, k) ==
  IF k >= Len(chunks) THEN <<>>
  ELSE (IF k > 0 THEN DATA_CHUNK_PREFIX ELSE <<>>) \o chunks[k + 1]
       \o Rejoin(chunks, k + 1)

IsSuffix(x, y) == Len(x) <= Len(y) /\ SubSeq(y, Len(y) - Len(x) + 1, Len(y)) = x

\* C25: an incomplete fragment defers the remainder: when handleChunk has
\* returned at a fragment that does not end with a brace, the carry-over ends
\* with the text of that fragment and of every fragment after it.
DefersRemainder ==
  (pc # "callback" /\ thrown = "none" /\ i < Len(rawChunks))
    => IsSuffix(Rejoin(rawChunks, i), incompleteChunk)

Contains(t, m) == \E k \in 0..(Len(t) - Len(m)) : SubSeq(t, k + 1, k + Len(m)) = m

\* the last fragment of a text
LastFragment(t) == LET parts == split(t, DATA_CHUNK_PREFIX) IN parts[Len(parts)]

\* a carry-over that ends with a brace ends with a fragment that failed to
\* parse: an incomplete fragment does not end with one
MalformedKeptStep ==
  (/\ HandleChunkCalled
   /\ incompleteChunk # <<>>
   /\ incompleteChunk[Len(incompleteChunk)] = "}"
   /\ delivered' = delivered)
    => Contains(incompleteChunk', LastFragment(incompleteChunk))

\* C26: malformed fragments are retained: the text of a fragment that ended
\* with a brace and failed to parse is still part of the carry-over after a
\* later handleChunk call, the final flush included, that delivered nothing.
MalformedKept == [][MalformedKeptStep]_vars

\* C27: multi-byte characters survive chunk splits: no record passed to the
\* callback holds a replacement character, however the bytes of the body are
\* cut into chunks.
NoReplacementCharacter ==
  \A j \in 1..Len(delivered) :
    \A k \in 1..Len(delivered[j]) : delivered[j][k] # "U+FFFD"

\* the byte source has signalled its end
SourceCompleted == done

SingleFlushStep ==
  /\ SourceCompleted
       => (pos' = pos /\ responseSize' = responseSize /\ pc' \notin {"loop", "reading"})
  /\ (caller' = "flush" /\ caller # "flush") => (done /\ pc = "after_loop")
  /\ caller = "flush" => (caller' = "flush" /\ pc' # "after_loop")

\* C28: termination with a single flush: readQueryStream settles; it rejects
\* only when a read or a callback failed or the signal was aborted, so it
\* returns otherwise; once the source has signalled its end nothing more is
\* read, handleChunk('') is called at most once, and the value returned is the
\* length of the decoded text of the chunks.
SingleFlushTermination ==
  /\ <>(pc \in {"returned", "rejected"})
  /\ [](pc = "rejected" => (thrown \in {"read_error", "callback_error"} \/ aborted))
  /\ [](SourceCompleted /\ pc = "returned"
          => (outcome = "resolved" /\ responseSize = Len(decode(stream))))
  /\ [][SingleFlushStep]_vars

\* a run returned after the flush of a carry-over, with a record delivered
SingleFlushTerminationWitness ==
  /\ pc = "returned"
  /\ caller = "flush"
  /\ ~aborted
  /\ delivered # <<>>
  /\ responseSize = Len(stream)

FlushDeliversNothingStep ==
  (pc = "after_loop" \/ caller = "flush")
    => (delivered' = delivered /\ outstanding' = outstanding /\ pc' # "callback")

\* C32: the end-of-stream flush delivers nothing new: from the end of the read
\* loop on, the final handleChunk('') included, the callback is not invoked.
FlushDeliversNothing == [][FlushDeliversNothingStep]_vars

\* the flush has looked again at a fragment that ends with a closing brace
\* and has buffered it once more
FlushDeliversNothingWitness ==
  /\ pc = "returned"
  /\ caller = "flush"
  /\ rawChunks # <<>>
  /\ trim(rawChunks[1]) # <<>>
  /\ trim(rawChunks[1])[Len(trim(rawChunks[1]))] = "}"
  /\ incompleteChunk = trim(rawChunks[1])

\* C33: at-most-once delivery: no frame of the stream is delivered to the
\* callback more than once, and every record delivered is the parse of a
\* frame of the stream.
AtMostOnce ==
  /\ \A m, n \in 1..Len(delivered) : m # n => delivered[m] # delivered[n]
  /\ \A m \in 1..Len(delivered) :
       \E a \in 1..Len(frames) : delivered[m] = RecordOf(frames[a])

\* C23: request validation precedes the network: a call of query or
\* queryStream with no interaction, or with interactions whose user message
\* texts are all empty, rejects with the message of the validation error and
\* never calls the fetch function.
ValidationBeforeFetch ==
  (interactions = <<>> \/ \A j \in 1..Len(interactions) : Len(interactions[j]) = 0)
    => /\ fetchCalls = 0
       /\ qpc \in {"queryRaw", "rejected"}
       /\ qpc = "rejected"
            => rejection =
                 "require at least 1 interaction with non-empty user message content"

\* a request with two interactions, both with the empty text, was rejected
ValidationBeforeFetchWitness ==
  /\ Len(interactions) = 2
  /\ interactions[1] = <<>>
  /\ interactions[2] = <<>>
  /\ qpc = "rejected"

\* the detail list of a response with status 400..500 whose body is JSON with
\* a non-empty detail list, the empty list for any other response
DetailList(r) ==
  LET parsed == JSON_parseBody(r.text)
  IN IF /\ r.status \in 400..500
        /\ r.body
        /\ parsed.kind = "object"
        /\ parsed.detail.kind = "list"
     THEN parsed.detail.list
     ELSE <<>>

\* C36: HTTP validation errors keep their detail: validateResponse returns a
\* response with status < 400; for status 400..500 and a JSON body with a
\* non-empty detail list it throws a PromptQLError with that list as detail
\* and the messages joined by '. ' as message; for any other status >= 400 it
\* throws a PromptQLError with empty detail and the response text as message.
ErrorsKeepDetail ==
  response # NoResponse
    => /\ response.status < 400 => (qpc = "resolved" /\ rejection = "none")
       /\ (response.status >= 400 /\ DetailList(response) # <<>>)
            => /\ qpc = "rejected"
               /\ detail = DetailList(response)
               /\ rejection = joinMessages(DetailList(response))
       /\ (response.status >= 400 /\ DetailList(response) = <<>>)
            => /\ qpc = "rejected"
               /\ detail = <<>>
               /\ rejection = IF response.body THEN response.text
                              ELSE response.statusText

\* ------------------------------------------------------------------------
\* Properties of the accumulator (accumulator 1 is the one pushed into)
\* ------------------------------------------------------------------------
Max(x, y) == IF x >= y THEN x ELSE y

\* the text of the non-empty fragments of field name pushed at index idx,
\* joined in push order
RECURSIVE Fragments(_, _, _)
Fragments(log, idx, name) ==
  IF log = <<>> THEN <<>>
  ELSE (IF /\ Head(log).type = "assistant_action_chunk"
           /\ Head(log).index = idx
           /\ Head(log)[name].tag = "string"
        THEN Head(log)[name].s ELSE <<>>)
       \o Fragments(Tail(log), idx, name)

\* the text field name of the seeded action at index idx starts with
SeedFragment(idx, name) ==
  IF idx < Len(seed.actions) /\ seed.actions[idx + 1][name].tag = "string"
  THEN seed.actions[idx + 1][name].s ELSE <<>>

\* C5: fragment concatenation without separators: each of the five fields of
\* the action at index idx is the plain concatenation, in push order, of the
\* non-empty fragments pushed for that field at that index (after the seeded
\* text, if any), and is absent or empty when there is none.
FragmentsConcatenated ==
  \A a \in 1..Len(accs) :
    \A idx \in 0..(Len(getAssistantActions(World, a)) - 1) :
      \A name \in assistantActionKeys :
        LET text == SeedFragment(idx, name) \o Fragments(pushed, idx, name)
            field == getAssistantActions(World, a)[idx + 1][name]
        IN IF text = <<>> THEN IsFalsy(field) ELSE field = Str(text)

\* a field built from two different fragments, with other pushes around them
FragmentsConcatenatedWitness ==
  /\ Len(pushed) = 3
  /\ Len(getAssistantActions(World, 1)) >= 2
  /\ getAssistantActions(World, 1)[2]["message"] = Str(<<"a", "b">>)

\* C6: sparse index padding: a push of an assistant_action_chunk with index k
\* onto n actions leaves max(n, k + 1) actions; every new slot below k is an
\* empty placeholder and every old action at another index is unchanged.
SparsePaddingStep ==
  (/\ Len(pushed') = Len(pushed) + 1
   /\ pushed'[Len(pushed')].type = "assistant_action_chunk")
  => LET k == pushed'[Len(pushed')].index
         old == getAssistantActions(World, 1)
         new == getAssistantActions(World, 1)'
     IN /\ Len(new) = Max(Len(old), k + 1)
        /\ \A j \in 1..Len(new) :
             j # k + 1 => new[j] = (IF j <= Len(old) THEN old[j] ELSE EmptyAction)

SparsePadding == [][SparsePaddingStep]_vars

\* a first push at index 2 has created two placeholders below the action
SparsePaddingWitness ==
  /\ Len(pushed) = 1
  /\ seed.actions = <<>>
  /\ pushed[1].type = "assistant_action_chunk"
  /\ pushed[1].index = 2
  /\ Len(getAssistantActions(World, 1)) = 3
  /\ getAssistantActions(World, 1)[1] = EmptyAction
  /\ getAssistantActions(World, 1)[2] = EmptyAction
  /\ getAssistantActions(World, 1)[3] # EmptyAction

\* the mergeable part of an artifact's data: the text, the rows, the html
DataOf(artifact) ==
  IF artifact.artifact_type = VISUALIZATION THEN artifact.data.html ELSE artifact.data

MergedTypes == {TEXT, TABLE, VISUALIZATION}

\* the keys of the artifacts of a list
KeysOf(list) == { buildArtifactKey(list[j]) : j \in 1..Len(list) }

\* the artifacts carried by the artifact_update_chunk records of a log
RECURSIVE ArtifactsOf(_)
ArtifactsOf(log) ==
  IF log = <<>> THEN <<>>
  ELSE (IF Head(log).type = "artifact_update_chunk" THEN <<Head(log).artifact>> ELSE <<>>)
       \o ArtifactsOf(Tail(log))

\* the data of the artifacts of a list that have the key, joined in list order
RECURSIVE JoinData(_, _)
JoinData(list, key) ==
  IF list = <<>> THEN <<>>
  ELSE (IF buildArtifactKey(Head(list)) = key THEN DataOf(Head(list)) ELSE <<>>)
       \o JoinData(Tail(list), key)

\* the last artifact of a list that has the key
LastWith(list, key) ==
  list[CHOOSE j \in 1..Len(list) :
         /\ buildArtifactKey(list[j]) = key
         /\ \A h \in (j + 1)..Len(list) : buildArtifactKey(list[h]) # key]

\* the data the seed gave the key: that of the last seeded artifact with it
SeedData(key) ==
  IF key \in KeysOf(seed.artifacts) THEN DataOf(LastWith(seed.artifacts, key)) ELSE <<>>

\* how many entries of a list equal x
Count(list, x) == Cardinality({ j \in 1..Len(list) : list[j] = x })

\* C7: artifact merge by type: for a key of type text, table or visualization
\* the pushes produce one entry, whose text, rows or html is the concatenation,
\* in arrival order, of what the chunks for that key carried.
ArtifactMerge ==
  \A key \in KeysOf(seed.artifacts) \cup KeysOf(ArtifactsOf(pushed)) :
    LET acc == accs[1]
    IN /\ key \in DOMAIN acc.modifiedArtifacts
       /\ Count(acc.modifiedArtifactKeys, key) = 1
       /\ artifacts[acc.modifiedArtifacts[key]].artifact_type \in MergedTypes
          => DataOf(artifacts[acc.modifiedArtifacts[key]])
               = SeedData(key) \o JoinData(ArtifactsOf(pushed), key)

\* two pushes for one table key, the rows of both kept in arrival order
ArtifactMergeWitness ==
  /\ seed.artifacts = <<>>
  /\ Len(getModifiedArtifacts(World, 1)) = 1
  /\ getModifiedArtifacts(World, 1)[1].artifact_type = TABLE
  /\ getModifiedArtifacts(World, 1)[1].data = <<"row2", "row3", "row1">>

\* C8: an unknown artifact type is last-write-wins: the entry of a key whose
\* type is none of text, table, visualization is the artifact pushed last for it.
UnknownTypeLastWriteWins ==
  \A key \in KeysOf(ArtifactsOf(pushed)) :
    LET stored == artifacts[accs[1].modifiedArtifacts[key]]
    IN stored.artifact_type \notin MergedTypes
         => stored = LastWith(ArtifactsOf(pushed), key)

\* C9: deterministic artifact ordering: getModifiedArtifacts() returns one
\* artifact per key seeded or pushed, in strictly ascending order of the key
\* artifact_type + ':' + identifier.
ArtifactsSorted ==
  LET result == getModifiedArtifacts(World, 1)
  IN /\ KeysOf(result) = KeysOf(seed.artifacts) \cup KeysOf(ArtifactsOf(pushed))
     /\ \A j \in 1..(Len(result) - 1) :
          StringLess(buildArtifactKey(result[j]), buildArtifactKey(result[j + 1]))

\* artifacts that arrived in descending key order
ArtifactsSortedWitness ==
  /\ Len(ArtifactsOf(pushed)) = 3
  /\ \A j \in 1..2 : StringLess(buildArtifactKey(ArtifactsOf(pushed)[j + 1]),
                                buildArtifactKey(ArtifactsOf(pushed)[j]))
  /\ Len(getModifiedArtifacts(World, 1)) >= 3

\* the error texts of the error_chunk records of a log, joined in push order
RECURSIVE JoinErrors(_)
JoinErrors(log) ==
  IF log = <<>> THEN <<>>
  ELSE (IF Head(log).type = "error_chunk" THEN Head(log).error ELSE <<>>)
       \o JoinErrors(Tail(log))

\* C10: error concatenation: before any error_chunk is pushed isError() is
\* false and getError() undefined; after error chunks e1..en, interleaved
\* with other records or not, getError().error is e1.error + ... + en.error.
ErrorsConcatenated ==
  IF \E j \in 1..Len(pushed) : pushed[j].type = "error_chunk"
  THEN /\ isError(World, 1)
       /\ getError(World, 1).error = JoinErrors(pushed)
  ELSE /\ ~isError(World, 1)
       /\ accs[1].errorChunk = 0

\* two different error fragments with another record between them
ErrorsConcatenatedWitness ==
  /\ Len(pushed) = 3
  /\ pushed[1].type = "error_chunk"
  /\ pushed[2].type # "error_chunk"
  /\ pushed[3].type = "error_chunk"
  /\ getError(World, 1).error = <<"x", "y">>

\* C14: finalize precondition: toQueryResponse() returns no result whose
\* thread_id is null; on an accumulator that has no thread id it fails.
FinalizePrecondition ==
  \A a \in 1..Len(accs) : toQueryResponse(World, a).thread_id # Null

\* x is the beginning of y
IsPrefix(x, y) == Len(x) <= Len(y) /\ SubSeq(y, 1, Len(x)) = x

\* the artifact of a list that has the key
EntryOf(list, key) == list[CHOOSE j \in 1..Len(list) : buildArtifactKey(list[j]) = key]

AppendOnlyStep ==
  LET oldActions == getAssistantActions(World, 1)
      newActions == getAssistantActions(World, 1)'
      oldArtifacts == getModifiedArtifacts(World, 1)
      newArtifacts == getModifiedArtifacts(World, 1)'
  IN /\ Len(newActions) >= Len(oldActions)
     /\ \A j \in 1..Len(oldActions) : \A name \in assistantActionKeys :
          ~IsFalsy(oldActions[j][name])
            => /\ newActions[j][name].tag = "string"
               /\ IsPrefix(oldActions[j][name].s, newActions[j][name].s)
     /\ KeysOf(oldArtifacts) \subseteq KeysOf(newArtifacts)
     /\ \A key \in KeysOf(oldArtifacts) :
          EntryOf(oldArtifacts, key).artifact_type \in MergedTypes
            => IsPrefix(DataOf(EntryOf(oldArtifacts, key)),
                        DataOf(EntryOf(newArtifacts, key)))

\* C15: append-only accumulation: no push lowers the number of actions or
\* removes an artifact key, and every non-empty action field, text, row list
\* and html that existed before a push is a prefix of its value after it.
AppendOnly == [][AppendOnlyStep]_vars

\* seeded table rows and a seeded action field that pushes have extended
AppendOnlyWitness ==
  /\ Len(pushed) = 3
  /\ \E j \in 1..Len(getModifiedArtifacts(World, 1)) :
       /\ getModifiedArtifacts(World, 1)[j].artifact_type = TABLE
       /\ getModifiedArtifacts(World, 1)[j].data = <<"row0", "row1">>
  /\ getAssistantActions(World, 1)[1]["message"] = Str(<<"s", "a">>)
  /\ Len(getAssistantActions(World, 1)) = 2

\* the positions of the thread_metadata_chunk records of a log
ThreadChunksOf(log) == { j \in 1..Len(log) : log[j].type = "thread_metadata_chunk" }

\* C16: the thread id is last-write-wins: getThreadId() is the thread_id of
\* the thread_metadata_chunk pushed last; before any is pushed it is the
\* seeded thread id, and null when none was seeded.
ThreadIdLastWriteWins ==
  getThreadId(World, 1) =
    IF ThreadChunksOf(pushed) = {}
    THEN (IF seed.thread_id.tag = "string" THEN seed.thread_id ELSE Null)
    ELSE pushed[CHOOSE j \in ThreadChunksOf(pushed) :
                  \A h \in ThreadChunksOf(pushed) : h <= j].thread_id

\* a seeded thread id overwritten twice, another record pushed after that
ThreadIdLastWriteWinsWitness ==
  /\ Len(pushed) = 3
  /\ seed.thread_id = Str(<<"0">>)
  /\ pushed[1] = [type |-> "thread_metadata_chunk", thread_id |-> Str(<<"1">>)]
  /\ pushed[2] = [type |-> "thread_metadata_chunk", thread_id |-> Str(<<"2">>)]
  /\ pushed[3].type = "error_chunk"
  /\ getThreadId(World, 1) = Str(<<"2">>)

\* two artifacts are of the same (artifact_type, identifier) pair
SamePair(x, y) == x.artifact_type = y.artifact_type /\ x.identifier = y.identifier

\* the data of the artifacts of a list that are of the pair of x, joined in
\* list order
RECURSIVE JoinPairData(_, _)
JoinPairData(list, x) ==
  IF list = <<>> THEN <<>>
  ELSE (IF SamePair(Head(list), x) THEN DataOf(Head(list)) ELSE <<>>)
       \o JoinPairData(Tail(list), x)

\* the data the seed gave the pair of x: that of the last seeded artifact of it
SeedPairData(x) ==
  LET same == { j \in 1..Len(seed.artifacts) : SamePair(seed.artifacts[j], x) }
  IN IF same = {} THEN <<>>
     ELSE DataOf(seed.artifacts[CHOOSE j \in same : \A h \in same : h <= j])

\* C17: distinct composite keys are distinct entries: every pushed
\* (artifact_type, identifier) pair has exactly one artifact of its own, also
\* when another type was pushed with the same identifier, and the data of that
\* artifact comes from the chunks (and the seed) of that pair alone.
DistinctKeys ==
  LET result == getModifiedArtifacts(World, 1)
      arrived == ArtifactsOf(pushed)
  IN \A j \in 1..Len(arrived) :
       LET own == { h \in 1..Len(result) : SamePair(result[h], arrived[j]) }
       IN /\ Cardinality(own) = 1
          /\ \A h \in own :
               IF result[h].artifact_type \in MergedTypes
               THEN DataOf(result[h])
                      = SeedPairData(arrived[j]) \o JoinPairData(arrived, arrived[j])
               ELSE \E k \in 1..Len(arrived) :
                      SamePair(arrived[k], arrived[j]) /\ result[h].data = arrived[k].data

\* a text and a table with the same identifier, the text pushed twice
DistinctKeysWitness ==
  /\ seed.artifacts = <<>>
  /\ Len(ArtifactsOf(pushed)) = 3
  /\ Len(getModifiedArtifacts(World, 1)) = 2
  /\ getModifiedArtifacts(World, 1)[1].artifact_type = TABLE
  /\ getModifiedArtifacts(World, 1)[2].artifact_type = TEXT
  /\ getModifiedArtifacts(World, 1)[1].identifier = getModifiedArtifacts(World, 1)[2].identifier
  /\ getModifiedArtifacts(World, 1)[2].data = <<"p", "q">>

\* how many of the first j records pushed are of the given type
PushedOfType(j, type) == Cardinality({ h \in 1..j : pushed[h].type = type })

\* the heap objects of the j-th record pushed: push was passed one new error
\* chunk object per error record and one new artifact object per artifact
\* record, in push order, after the objects of the initial value
ErrorObject(j) ==
  errors[Len(errors) - PushedOfType(Len(pushed), "error_chunk")
         + PushedOfType(j, "error_chunk")]

ArtifactObject(j) ==
  artifacts[Len(artifacts) - PushedOfType(Len(pushed), "artifact_update_chunk")
            + PushedOfType(j, "artifact_update_chunk")]

\* C35: push does not mutate the caller's records: the error chunk object and
\* the artifact object of every record that was passed to push are as they
\* were when they were passed.
RecordsUntouched ==
  \A j \in 1..Len(pushed) :
    /\ pushed[j].type = "error_chunk" => ErrorObject(j) = pushed[j]
    /\ pushed[j].type = "artifact_update_chunk" => ArtifactObject(j) = pushed[j].artifact

\* ------------------------------------------------------------------------
\* Properties of append
\* ------------------------------------------------------------------------
\* the error text an argument of append carries, '' for any other record
ErrorTextOf(record) ==
  IF "ref" \in DOMAIN record THEN errors[record.ref].error
  ELSE IF record.type = "error_chunk" THEN record.error
  ELSE <<>>

IsErrorRecord(record) == "ref" \in DOMAIN record \/ record.type = "error_chunk"

RECURSIVE JoinErrorTexts(_)
JoinErrorTexts(records) ==
  IF records = <<>> THEN <<>>
  ELSE ErrorTextOf(Head(records)) \o JoinErrorTexts(Tail(records))

\* this step is a.append(...records)
IsAppend(a, records) == World' = append(World, a, records)

AppendKeepsErrorStep ==
  \A a \in 1..Len(accs) : \A records \in RecordLists(a) :
    IsAppend(a, records)
      => /\ isError(World, Len(accs))'
              = (isError(World, a) \/ \E j \in 1..Len(records) : IsErrorRecord(records[j]))
         /\ isError(World, Len(accs))'
              => getError(World, Len(accs))'.error
                   = (IF isError(World, a) THEN getError(World, a).error ELSE <<>>)
                     \o JoinErrorTexts(records)

\* C11: append preserves the whole state: the result of a.append(...records)
\* reports an error exactly when a does or a record is an error chunk, and its
\* error text is that of a followed by the error texts of the records.
AppendKeepsError == [][AppendKeepsErrorStep]_vars

\* what the accessors of accumulator a return
Observed(w, a) ==
  [thread_id |-> getThreadId(w, a),
   assistant_actions |-> getAssistantActions(w, a),
   modified_artifacts |-> getModifiedArtifacts(w, a),
   error |-> IF isError(w, a) THEN <<getError(w, a)>> ELSE <<>>]

AppendLeavesOriginalStep ==
  \A a \in 1..Len(accs) : \A records \in RecordLists(a) :
    IsAppend(a, records) => Observed(World, a)' = Observed(World, a)

\* C12: append leaves the original untouched: after a.append(...records) the
\* thread id, the actions, the artifacts (rows and html included) and the
\* error that a returns are what they were before the call.
AppendLeavesOriginal == [][AppendLeavesOriginalStep]_vars

\* C13: folding by chained append equals folding by push: when queryChunks
\* has consumed, one append per record, the records that were pushed into
\* accumulator 1, both return the same toQueryResponse().
FoldEquivalence ==
  Len(pushed) = queryChunks - 2
    => toQueryResponse(World, queryChunks) = toQueryResponse(World, 1)

\* three records folded both ways into a response with a thread id, an action
\* and a table whose rows came with two records
FoldEquivalenceWitness ==
  /\ Len(pushed) = 3
  /\ queryChunks = 5
  /\ \E j \in 1..3 : pushed[j].type = "artifact_update_chunk"
  /\ LET folded == toQueryResponse(World, queryChunks)
     IN /\ Len(folded.modified_artifacts) = 1
        /\ folded.modified_artifacts[1].data = <<"row1", "row2", "row3">>
        /\ folded.thread_id = Str(<<"2">>)

IsPush(a, chunk) == World' = push(World, a, chunk)

\* the initial value object as it is now: the array and the artifacts it holds
InitialValue(w) ==
  [actions |-> w.arrays[SeedValue.assistant_actions],
   artifacts |-> [j \in 1..Len(SeedValue.modified_artifacts) |->
                    w.artifacts[SeedValue.modified_artifacts[j]]],
   thread_id |-> SeedValue.thread_id]

NoSharedStateStep ==
  \A a \in 1..Len(accs) : \A chunk \in AppendRecords :
    IsPush(a, chunk)
      => /\ \A b \in 1..Len(accs) \ {a} : Observed(World, b)' = Observed(World, b)
         /\ seed.thread_id # Undefined => InitialValue(World)' = InitialValue(World)

\* C29: accumulators share no mutable state: a push into one accumulator
\* leaves what the accessors of every other accumulator return as it was, and
\* leaves the initial value object as it was.
NoSharedState == [][NoSharedStateStep]_vars

\* C30: snapshot round trip: the accumulator made from a.toQueryResponse()
\* returns the thread id, the actions and the artifacts of a, and still does
\* whenever both have been given the same further records.
SnapshotRoundTrip ==
  (Len(accs) = 2 /\ taken = Len(pushed))
    => /\ getThreadId(World, 2) = getThreadId(World, 1)
       /\ getAssistantActions(World, 2) = getAssistantActions(World, 1)
       /\ getModifiedArtifacts(World, 2) = getModifiedArtifacts(World, 1)

\* both were given three records, the snapshot was taken before the last: the
\* two hold an artifact of their own for a key that came after the snapshot,
\* next to an artifact and an action they got before it
SnapshotRoundTripWitness ==
  /\ Len(accs) = 2
  /\ Len(pushed) = 3
  /\ taken = 3
  /\ Len(getModifiedArtifacts(World, 2)) >= 2
  /\ Len(getAssistantActions(World, 2)) >= 1
  /\ \E key \in DOMAIN accs[2].modifiedArtifacts :
       accs[2].modifiedArtifacts[key] # accs[1].modifiedArtifacts[key]

\* the entity a record targets: the thread id, the error, the artifact of a
\* key, the assistant action of an index
Entity(record) ==
  IF record.type = "artifact_update_chunk"
    THEN <<record.type, buildArtifactKey(record.artifact)>>
  ELSE IF record.type = "assistant_action_chunk" THEN <<record.type, record.index>>
  ELSE <<record.type>>

\* both accumulators hold all the records, of which there are two at least
BothOrdersPushed ==
  /\ Len(fixtures) >= 2
  /\ Len(pushed) = Len(fixtures)
  /\ taken = Len(fixtures)

\* C31: pushes to different entities commute: when the last two records
\* target different entities, the accumulator that was given them in one
\* order and the accumulator that was given them in the other order, after
\* the same records before, return the same thread id, error, actions and
\* artifacts.
PushesCommute ==
  (BothOrdersPushed
     /\ Entity(fixtures[Len(fixtures)]) # Entity(fixtures[Len(fixtures) - 1]))
    => Observed(World, 2) = Observed(World, 1)

\* three records in both orders: an update of a stored artifact and the first
\* record of an artifact whose key sorts before it
PushesCommuteWitness ==
  /\ BothOrdersPushed
  /\ Len(fixtures) = 3
  /\ fixtures[1].type = "artifact_update_chunk"
  /\ fixtures[2].type = "artifact_update_chunk"
  /\ fixtures[3].type = "artifact_update_chunk"
  /\ Entity(fixtures[2]) = Entity(fixtures[1])
  /\ Entity(fixtures[3]) # Entity(fixtures[2])
  /\ StringLess(buildArtifactKey(fixtures[3].artifact),
                buildArtifactKey(fixtures[2].artifact))
  /\ Len(getModifiedArtifacts(World, 1)) = 2

====
